---- MODULE Spec2Model ----
(***************************************************************************)
(* Strategy back-test (scripts/backtest_all_strategies_30days.py) and the  *)
(* 7-signal scorer (scripts/backtest_1m_scorer.py,                         *)
(* scripts/analyze_last_2_days.py).                                        *)
(*                                                                         *)
(* Number representation (the scripts use floats):                         *)
(*   - times are seconds, as in the database;                              *)
(*   - a price column holds an integer number of price units, price_scale  *)
(*     units making one SOL;                                               *)
(*   - SOL amounts (amount_sol, vol_sol, initial_liquidity_sol) are in     *)
(*     hundredths of a SOL;                                                *)
(*   - scores are in tenths of a point;                                    *)
(*   - win_rate is in percent;                                             *)
(*   - prices in a returned position are in hundredths of a price unit;    *)
(*   - position sizes and P&L are reduced fractions [n, d].                *)
(* A returned position carries two fields the script only holds in local   *)
(* variables: entry_time (offset of the entry window) and exit_time        *)
(* (offset of the window at which the exit loop broke, NoExit otherwise).  *)
(* The one place where rounding is modelled is the running total           *)
(* total_pnl += pnl_usd: both operands and the sum are floats, values with *)
(* a significand that the model shortens from 53 bits to MantissaBits.     *)
(***************************************************************************)
EXTENDS Integers, Sequences, FiniteSets, TLC

VARIABLES price_scale, token, windows, trades, wallet_stats,
          pc, results, last, score_out, batch, idx,
          now, repository, phase, faulty, caught

db == <<price_scale, token, windows, trades, wallet_stats>>
\* the qualified tokens (price windows and trades of each), in processing
\* order, and the position in it of the token being processed
run == <<batch, idx>>
\* the surroundings of a run: the wall-clock time at its start, the tokens
\* table with each token's windows and trades, how far the run has come
\* ("start", "loop", "returned", "raised"), the calls that raise (token
\* position and call, 0 for the price query of the loop and k for the k-th
\* simulator) and the number of exceptions the loop has swallowed
env == <<now, repository, phase, faulty, caught>>
vars == <<price_scale, token, windows, trades, wallet_stats,
          pc, results, last, score_out, batch, idx,
          now, repository, phase, faulty, caught>>

----------------------------------------------------------------------------
(* Program constants *)

SOL_PRICE_USD == 186
WINDOW_SEC == 60
TOKEN_SUPPLY == 1000000000
MC_1M == 1000000
\* volume floors of signal 6, in hundredths of a SOL: the least (0.1) and the
\* greatest (0.5) of the implementations
VOLUME_FLOOR_MIN == 10
VOLUME_FLOOR_MAX == 50
ENTRY_THRESHOLD == 60

(* Bounds of the explored inputs *)

MaxWindows == 4
MaxMoves == 1
LatePrefix == 19
LaunchTime == 1000
MaxBuyers == 11
MaxTokens == 3
MantissaBits == 10

----------------------------------------------------------------------------
(* Arithmetic helpers *)

Min(S) == CHOOSE x \in S : \A y \in S : x <= y

Abs(x) == IF x < 0 THEN -x ELSE x

RECURSIVE Gcd(_, _)
Gcd(a, b) == IF b = 0 THEN a ELSE Gcd(b, a % b)

Frac(n, d) ==
  LET g == Gcd(Abs(n), Abs(d))
      s == IF d < 0 THEN -1 ELSE 1
  IN [n |-> (s * n) \div g, d |-> (s * d) \div g]

FracZero == [n |-> 0, d |-> 1]

FracAdd(a, b) ==
  LET l == (a.d \div Gcd(a.d, b.d)) * b.d
  IN Frac(a.n * (l \div a.d) + b.n * (l \div b.d), l)

\* a * m / q for a fraction a and integers m, q (q > 0)
FracScale(a, m, q) ==
  LET g1 == Gcd(Abs(a.n), q)
      g2 == Gcd(Abs(m), a.d)
      g3 == Gcd(Abs(m) \div g2, q \div g1)
  IN Frac((a.n \div g1) * ((m \div g2) \div g3),
          (a.d \div g2) * ((q \div g1) \div g3))

RECURSIVE Pow2(_)
Pow2(k) == IF k = 0 THEN 1 ELSE 2 * Pow2(k - 1)

\* n / d (n, d > 0) scaled by a power of two into [2^(MantissaBits-1),
\* 2^MantissaBits): the scaled numerator and denominator and the two powers
RECURSIVE Normalize(_, _, _, _)
Normalize(n, d, up, down) ==
  IF n < d * Pow2(MantissaBits - 1) THEN Normalize(2 * n, d, 2 * up, down)
  ELSE IF n >= d * Pow2(MantissaBits) THEN Normalize(n, 2 * d, up, 2 * down)
  ELSE [n |-> n, d |-> d, up |-> up, down |-> down]

\* the float nearest to the fraction a, ties to the even significand
RoundFloat(a) ==
  IF a.n = 0 THEN FracZero
  ELSE
    LET z == Normalize(Abs(a.n), a.d, 1, 1)
        q == z.n \div z.d
        r == z.n % z.d
        m == IF 2 * r > z.d \/ (2 * r = z.d /\ q % 2 = 1) THEN q + 1 ELSE q
        s == IF a.n < 0 THEN -1 ELSE 1
    IN Frac(s * m * z.down, z.up)

\* a + b in floating point: the operands are floats, the nearest ones to the
\* exact values the model carries, and so is the result
FloatAdd(a, b) == RoundFloat(FracAdd(RoundFloat(a), RoundFloat(b)))

\* ceil(a / b) for a >= 0, b > 0
CeilDiv(a, b) == (a + b - 1) \div b

RECURSIVE SumAmount(_)
SumAmount(ts) ==
  IF ts = <<>> THEN 0 ELSE Head(ts).amount_sol + SumAmount(Tail(ts))

Buys(ts) == SelectSeq(ts, LAMBDA t : t.side = "buy")

Traders(ts) == {ts[i].trader : i \in 1..Len(ts)}

----------------------------------------------------------------------------
(* Database queries *)

NoRow ==
  [exists |-> FALSE, net_pnl_sol |-> 0, create_count |-> 0,
   profit_score |-> 0, win_rate |-> 0, total_trades |-> 0]

get_trades(launch_time, start_offset, end_offset) ==
  SelectSeq(trades, LAMBDA t : /\ t.block_time >= launch_time + start_offset
                               /\ t.block_time <= launch_time + end_offset)

get_price_data(launch_time, max_seconds) ==
  SelectSeq(windows, LAMBDA w : /\ w.start_time >= launch_time
                                /\ w.start_time <= launch_time + max_seconds)

RECURSIVE SumVol(_)
SumVol(ws) == IF ws = <<>> THEN 0 ELSE Head(ws).vol_sol + SumVol(Tail(ws))

\* COALESCE(SUM(w.vol_sol), 0) over the windows starting in the first 300s
total_volume_5min(launch_time) == SumVol(get_price_data(launch_time, 300))

get_creator_stats(creator_wallet) == wallet_stats[creator_wallet]

get_wallet_tier(wallet) ==
  LET row == wallet_stats[wallet]
  IN IF ~row.exists THEN "Unknown"
     ELSE IF row.profit_score >= 85 /\ row.win_rate >= 70
             /\ row.total_trades >= 50 THEN "S"
     ELSE IF row.profit_score >= 75 /\ row.win_rate >= 60
             /\ row.total_trades >= 20 THEN "A"
     ELSE IF row.profit_score >= 65 /\ row.win_rate >= 50
             /\ row.total_trades >= 10 THEN "B"
     ELSE IF row.profit_score >= 50 /\ row.total_trades >= 5 THEN "C"
     ELSE "D"

----------------------------------------------------------------------------
(* Strategy simulators *)

None == [some |-> FALSE]

NoExit == -1

\* variant: with no window in [lo, hi] the first window of the history is
\* taken as the entry
FirstWindow_Fallback(prices, launch_time, lo, hi) ==
  LET S == {i \in 1..Len(prices) :
              /\ prices[i].start_time - launch_time >= lo
              /\ prices[i].start_time - launch_time <= hi}
  IN IF S = {} THEN (IF prices = <<>> THEN 0 ELSE 1) ELSE Min(S)

\* index of the first window whose offset from launch lies in [lo, hi];
\* 0 when there is none
FirstWindow(prices, launch_time, lo, hi) ==
  LET S == {i \in 1..Len(prices) :
              /\ prices[i].start_time - launch_time >= lo
              /\ prices[i].start_time - launch_time <= hi}
  IN IF S = {} THEN 0 ELSE Min(S)

\* variant of the exit loop: the stop loss is tested before the target
RECURSIVE ExitScan_StopFirst(_, _, _, _, _)
ExitScan_StopFirst(prices, i, launch_time, entry_price, c) ==
  IF i > Len(prices)
  THEN [exit_price |-> entry_price * 100, exit_reason |-> "time",
        exit_time |-> NoExit]
  ELSE
    LET p == prices[i]
        time_offset == p.start_time - launch_time
    IN IF time_offset <= c.skip
       THEN ExitScan_StopFirst(prices, i + 1, launch_time, entry_price, c)
       ELSE IF p.low * 100 < entry_price * c.stop_pct
       THEN [exit_price |-> entry_price * c.stop_pct,
             exit_reason |-> c.stop_reason, exit_time |-> time_offset]
       ELSE IF (p.high - entry_price) * 100 >= c.target_pct * entry_price
       THEN [exit_price |-> entry_price * (100 + c.target_pct),
             exit_reason |-> c.target_reason, exit_time |-> time_offset]
       ELSE IF time_offset >= c.timeout
       THEN [exit_price |-> p.close * 100,
             exit_reason |-> c.time_reason, exit_time |-> time_offset]
       ELSE ExitScan_StopFirst(prices, i + 1, launch_time, entry_price, c)

\* The exit loop shared in shape by strategies 1 to 5.  c.skip is the offset
\* up to which windows are passed over, c.target_pct the gain in percent,
\* c.stop_pct the stop level in percent of the entry price, c.timeout the
\* offset from which the time exit applies.
RECURSIVE ExitScan(_, _, _, _, _)
ExitScan(prices, i, launch_time, entry_price, c) ==
  IF i > Len(prices)
  THEN [exit_price |-> entry_price * 100, exit_reason |-> "time",
        exit_time |-> NoExit]
  ELSE
    LET p == prices[i]
        time_offset == p.start_time - launch_time
    IN IF time_offset <= c.skip
       THEN ExitScan(prices, i + 1, launch_time, entry_price, c)
       ELSE IF (p.high - entry_price) * 100 >= c.target_pct * entry_price
       THEN [exit_price |-> entry_price * (100 + c.target_pct),
             exit_reason |-> c.target_reason, exit_time |-> time_offset]
       ELSE IF p.low * 100 < entry_price * c.stop_pct
       THEN [exit_price |-> entry_price * c.stop_pct,
             exit_reason |-> c.stop_reason, exit_time |-> time_offset]
       ELSE IF time_offset >= c.timeout
       THEN [exit_price |-> p.close * 100,
             exit_reason |-> c.time_reason, exit_time |-> time_offset]
       ELSE ExitScan(prices, i + 1, launch_time, entry_price, c)

\* variant: the price change is taken relative to the exit price
PnlSol_ByExit(position_size_sol, entry_price, exit_price100) ==
  FracScale(position_size_sol, exit_price100 - entry_price * 100,
            exit_price100)

\* pnl_sol = position_size_sol * ((exit_price - entry_price) / entry_price)
PnlSol(position_size_sol, entry_price, exit_price100) ==
  FracScale(position_size_sol, exit_price100 - entry_price * 100,
            entry_price * 100)

Position(strategy, position_size_sol, entry_price, entry_time, x) ==
  LET pnl_sol == PnlSol(position_size_sol, entry_price, x.exit_price)
  IN [some |-> TRUE,
      strategy |-> strategy,
      position_size_sol |-> position_size_sol,
      entry_price |-> entry_price * 100,
      exit_price |-> x.exit_price,
      exit_reason |-> x.exit_reason,
      pnl_sol |-> pnl_sol,
      pnl_usd |-> FracScale(pnl_sol, SOL_PRICE_USD, 1),
      entry_time |-> entry_time,
      exit_time |-> x.exit_time]

\* variant: the position that never met an exit condition is returned
test_dollar_scalping_KeepFlat(launch_time, prices) ==
  IF Len(prices) < 2 THEN None
  ELSE
    LET e == FirstWindow(prices, launch_time, 30, 60)
    IN IF e = 0 \/ prices[e].close <= 0 THEN None
       ELSE
         LET entry_price == prices[e].close
             entry_time == prices[e].start_time - launch_time
             x == ExitScan(prices, 1, launch_time, entry_price,
                    [skip |-> entry_time, target_pct |-> 3, stop_pct |-> 98,
                     timeout |-> entry_time + 20,
                     target_reason |-> "profit_3pct",
                     stop_reason |-> "stop_loss",
                     time_reason |-> "time_20s"])
         IN Position("dollar_scalping", Frac(1, SOL_PRICE_USD),
                     entry_price, entry_time, x)

test_dollar_scalping(launch_time, prices) ==
  IF Len(prices) < 2 THEN None
  ELSE
    LET e == FirstWindow(prices, launch_time, 30, 60)
    IN IF e = 0 \/ prices[e].close <= 0 THEN None
       ELSE
         LET entry_price == prices[e].close
             entry_time == prices[e].start_time - launch_time
             x == ExitScan(prices, 1, launch_time, entry_price,
                    [skip |-> entry_time, target_pct |-> 3, stop_pct |-> 98,
                     timeout |-> entry_time + 20,
                     target_reason |-> "profit_3pct",
                     stop_reason |-> "stop_loss",
                     time_reason |-> "time_20s"])
             r == Position("dollar_scalping", Frac(1, SOL_PRICE_USD),
                           entry_price, entry_time, x)
         IN IF Abs(r.pnl_usd.n) * 100 < r.pnl_usd.d /\ x.exit_reason = "time"
            THEN None
            ELSE r

test_rank_based(launch_time, prices, volume_5min) ==
  IF Len(prices) < 3 THEN None
  ELSE IF volume_5min < 2000 THEN None
  ELSE
    LET e == FirstWindow(prices, launch_time, 60, 120)
    IN IF e = 0 \/ prices[e].close <= 0 THEN None
       ELSE
         LET entry_price == prices[e].close
             x == ExitScan(prices, 1, launch_time, entry_price,
                    [skip |-> 60, target_pct |-> 30, stop_pct |-> 80,
                     timeout |-> 60 + 30,
                     target_reason |-> "target_30pct",
                     stop_reason |-> "stop_loss_20pct",
                     time_reason |-> "time_30s"])
         IN Position("rank_based", Frac(5, SOL_PRICE_USD), entry_price,
                     prices[e].start_time - launch_time, x)

test_momentum(launch_time, prices) ==
  IF Len(prices) < 4 THEN None
  ELSE
    LET trades_60_120 == get_trades(launch_time, 60, 120)
        buyers == Traders(Buys(trades_60_120))
        volume == SumAmount(Buys(trades_60_120))
    IN IF Len(trades_60_120) < 5 THEN None
       ELSE IF Cardinality(buyers) < 3 \/ volume < 400 THEN None
       ELSE
         LET e == FirstWindow(prices, launch_time, 120, 130)
         IN IF e = 0 \/ prices[e].close <= 0 THEN None
            ELSE
              LET entry_price == prices[e].close
                  x == ExitScan(prices, 1, launch_time, entry_price,
                         [skip |-> 120, target_pct |-> 50, stop_pct |-> 85,
                          timeout |-> 120 + 120,
                          target_reason |-> "target_50pct",
                          stop_reason |-> "stop_loss_15pct",
                          time_reason |-> "time_120s"])
              IN Position("momentum", Frac(3, SOL_PRICE_USD), entry_price,
                          prices[e].start_time - launch_time, x)

\* variant: the first buy of at least 0.25 SOL, whoever the buyer
ProfitableTrade_AnyWallet(early_trades) ==
  LET S == {i \in 1..Len(early_trades) :
              /\ early_trades[i].side = "buy"
              /\ early_trades[i].amount_sol >= 25}
  IN IF S = {} THEN 0 ELSE Min(S)

\* index of the first early trade that is a buy of at least 0.25 SOL by a
\* wallet of tier S, A, B or C; 0 when there is none
ProfitableTrade(early_trades) ==
  LET S == {i \in 1..Len(early_trades) :
              /\ early_trades[i].side = "buy"
              /\ early_trades[i].amount_sol >= 25
              /\ get_wallet_tier(early_trades[i].trader)
                   \in {"S", "A", "B", "C"}}
  IN IF S = {} THEN 0 ELSE Min(S)

test_copy_trading(launch_time, prices) ==
  IF Len(prices) < 2 THEN None
  ELSE
    LET early_trades == get_trades(launch_time, 0, 60)
        k == ProfitableTrade(early_trades)
    IN IF early_trades = <<>> \/ k = 0 THEN None
       ELSE
         LET entry_time == early_trades[k].block_time - launch_time
             W == {i \in 1..Len(prices) :
                     Abs((prices[i].start_time - launch_time) - entry_time)
                       < 10}
             e == IF W = {} THEN 0 ELSE Min(W)
         IN IF e = 0 \/ prices[e].close <= 0 THEN None
            ELSE
              LET entry_price == prices[e].close
                  x == ExitScan(prices, 1, launch_time, entry_price,
                         [skip |-> entry_time, target_pct |-> 20,
                          stop_pct |-> 90, timeout |-> entry_time + 15,
                          target_reason |-> "target_20pct",
                          stop_reason |-> "stop_loss_10pct",
                          time_reason |-> "time_15s"])
              IN Position("copy_trading", Frac(2, SOL_PRICE_USD),
                          entry_price, prices[e].start_time - launch_time, x)

test_late_opportunity(launch_time, prices) ==
  IF Len(prices) < 20 THEN None
  ELSE
    LET late_trades == get_trades(launch_time, 1200, 1260)
        buyers == Traders(Buys(late_trades))
        volume == SumAmount(Buys(late_trades))
    IN IF late_trades = <<>> THEN None
       ELSE IF Cardinality(buyers) < 10 \/ volume < 1000 THEN None
       ELSE
         LET e == FirstWindow(prices, launch_time, 1200, 1260)
         IN IF e = 0 \/ prices[e].close <= 0 THEN None
            ELSE
              LET entry_price == prices[e].close
                  x == ExitScan(prices, 1, launch_time, entry_price,
                         [skip |-> 1200, target_pct |-> 25, stop_pct |-> 80,
                          timeout |-> 1200 + 300,
                          target_reason |-> "target_25pct",
                          stop_reason |-> "stop_loss_20pct",
                          time_reason |-> "time_300s"])
              IN Position("late_opportunity", Frac(1, SOL_PRICE_USD),
                          entry_price, prices[e].start_time - launch_time, x)

----------------------------------------------------------------------------
(* 7-signal score of the comprehensive back-test *)

RECURSIVE SumOver(_, _)
SumOver(f, S) ==
  IF S = {} THEN 0
  ELSE LET k == CHOOSE x \in S : TRUE IN f[k] + SumOver(f, S \ {k})

\* total bought by each trader of ts
TraderVolumes(ts) ==
  [w \in Traders(ts) |->
     SumAmount(SelectSeq(ts, LAMBDA t : t.trader = w))]

\* variant: only the largest value is taken, whatever k is
TopSum_One(f, S, k) ==
  IF k = 0 \/ S = {} THEN 0
  ELSE LET m == CHOOSE x \in S : \A y \in S : f[x] >= f[y]
       IN f[m]

\* sum of the k largest values of f over S
RECURSIVE TopSum(_, _, _)
TopSum(f, S, k) ==
  IF k = 0 \/ S = {} THEN 0
  ELSE LET m == CHOOSE x \in S : \A y \in S : f[x] >= f[y]
       IN f[m] + TopSum(f, S \ {m}, k - 1)

\* (diff price units) * TOKEN_SUPPLY / price_scale * mult / div >= v, where
\* diff is a price difference and v a velocity in SOL per minute
VelocityAtLeast(diff, mult, div, v) ==
  LET g == Gcd(mult, div)
      k == (TOKEN_SUPPLY \div price_scale) * (mult \div g)
  IN diff > 0 /\ diff >= CeilDiv(v * (div \div g), k)

calculate_7_signal_score(launch_time, creator_wallet) ==
  LET creator_stats == get_creator_stats(creator_wallet)
      signal_1 ==
        IF ~creator_stats.exists THEN 0
        ELSE IF creator_stats.net_pnl_sol >= 500
                /\ creator_stats.create_count >= 5 THEN 20
        ELSE IF creator_stats.net_pnl_sol >= 200
                /\ creator_stats.create_count >= 3 THEN 15
        ELSE IF creator_stats.net_pnl_sol >= 50 THEN 10
        ELSE 0
      trades_60 == get_trades(launch_time, 0, 60)
      buyers_60 == Traders(Buys(trades_60))
      signal_2 ==
        IF Cardinality(buyers_60) >= 10 THEN 20
        ELSE IF Cardinality(buyers_60) >= 7 THEN 15
        ELSE IF Cardinality(buyers_60) >= 5 THEN 10
        ELSE 0
      proven_winners_buying ==
        Len(SelectSeq(Buys(trades_60),
              LAMBDA t : get_wallet_tier(t.trader) \in {"S", "A", "B"}))
      signal_4 ==
        IF proven_winners_buying >= 3 THEN 20
        ELSE IF proven_winners_buying >= 2 THEN 15
        ELSE IF proven_winners_buying >= 1 THEN 10
        ELSE 0
      buy_trades == Buys(get_trades(launch_time, 0, 120))
      trader_volumes == TraderVolumes(buy_trades)
      total_volume == SumAmount(buy_trades)
      top3 == TopSum(trader_volumes, DOMAIN trader_volumes, 3)
      signal_5 ==
        IF buy_trades = <<>> \/ total_volume <= 0 THEN 0
        ELSE IF top3 * 100 < 70 * total_volume THEN 10
        ELSE IF top3 * 100 < 80 * total_volume THEN 5
        ELSE 0
      vol_recent == SumAmount(Buys(get_trades(launch_time, 90, 120)))
      vol_baseline == SumAmount(Buys(get_trades(launch_time, 60, 90)))
      signal_6 ==
        IF vol_baseline > 50 /\ vol_recent > 50
        THEN IF vol_recent >= 2 * vol_baseline THEN 15
             ELSE IF 2 * vol_recent >= 3 * vol_baseline THEN 10
             ELSE 0
        ELSE 0
      prices == get_price_data(launch_time, 300)
      signal_7 ==
        IF Len(prices) >= 3 /\ prices[1].close > 0
        THEN LET diff == prices[3].close - prices[1].close
             IN IF VelocityAtLeast(diff, 1, 3, 1000) THEN 30
                ELSE IF VelocityAtLeast(diff, 1, 3, 500) THEN 20
                ELSE IF VelocityAtLeast(diff, 1, 3, 200) THEN 10
                ELSE 0
        ELSE 0
      score == [signal_1 |-> signal_1, signal_2 |-> signal_2,
                signal_3 |-> 0, signal_4 |-> signal_4,
                signal_5 |-> signal_5, signal_6 |-> signal_6,
                signal_7 |-> signal_7, total |-> 0]
  IN [score EXCEPT !.total = SumOver(score, DOMAIN score \ {"total"})]

----------------------------------------------------------------------------
(* backtest_1m_scorer.py: the seven signal functions and their sum *)

Max(S) == CHOOSE x \in S : \A y \in S : x >= y

BlockTimes(ts) == {ts[i].block_time : i \in 1..Len(ts)}

\* SELECT close FROM windows WHERE start_time <= t
\* ORDER BY start_time DESC LIMIT 1; <<>> when there is no such row
LatestWindow(t) ==
  LET S == {i \in 1..Len(windows) : windows[i].start_time <= t}
  IN IF S = {} THEN <<>>
     ELSE <<windows[CHOOSE i \in S :
                      \A j \in S : windows[j].start_time
                                     <= windows[i].start_time]>>

calculate_signal_1_creator_reputation ==
  LET row == wallet_stats[token.creator_wallet]
      pnl == row.net_pnl_sol
      count == row.create_count
  IN IF ~row.exists THEN [score |-> 0, detail |-> "new_creator"]
     ELSE IF pnl >= 500 /\ count >= 5
     THEN [score |-> 20, detail |-> "proven"]
     ELSE IF pnl >= 200 /\ count >= 3 THEN [score |-> 15, detail |-> "good"]
     ELSE IF pnl >= 50 THEN [score |-> 10, detail |-> "profitable"]
     ELSE [score |-> 0, detail |-> "unprofitable"]

\* variant: two tenths of a point per distinct buyer, without a cap
calculate_signal_2_buyer_speed_Uncapped(launch_time, eval_time) ==
  LET buys == Buys(get_trades(launch_time, 0, eval_time))
      count == Cardinality(Traders(buys))
  IN IF count = 0 THEN [score |-> 0, detail |-> "no_buyers"]
     ELSE [score |-> 2 * count, detail |-> "buyers"]

calculate_signal_2_buyer_speed(launch_time, eval_time) ==
  LET buys == Buys(get_trades(launch_time, 0, eval_time))
      count == Cardinality(Traders(buys))
      span == IF buys = <<>> THEN 0
              ELSE Max(BlockTimes(buys)) - Min(BlockTimes(buys))
  IN IF count = 0 THEN [score |-> 0, detail |-> "no_buyers"]
     ELSE IF count >= 10 /\ span <= 30
     THEN [score |-> 20, detail |-> "10buyers"]
     ELSE IF count >= 10 /\ span <= 60
     THEN [score |-> 15, detail |-> "10buyers"]
     ELSE IF count >= 7 THEN [score |-> 10, detail |-> "buyers"]
     ELSE [score |-> 0, detail |-> "buyers"]

calculate_signal_3_liquidity_ratio(eval_time, launch_time) ==
  LET liquidity == token.initial_liquidity_sol
      row == LatestWindow(launch_time + eval_time)
      k == TOKEN_SUPPLY \div price_scale
  IN IF liquidity = 0 THEN [score |-> 0, detail |-> "no_liquidity_data"]
     ELSE IF row = <<>> \/ row[1].close = 0
     THEN [score |-> 0, detail |-> "no_price_data"]
     ELSE IF liquidity \div k < 3 * row[1].close
     THEN [score |-> 15, detail |-> "ratio"]
     ELSE IF liquidity \div k < 5 * row[1].close
     THEN [score |-> 10, detail |-> "ratio"]
     ELSE [score |-> 0, detail |-> "ratio_thin"]

\* the table holds fewer than 100 wallets, so LIMIT 100 keeps them all
calculate_signal_4_wallet_overlap(launch_time, eval_time) ==
  LET profitable_wallets ==
        {w \in DOMAIN wallet_stats :
           /\ wallet_stats[w].exists
           /\ wallet_stats[w].net_pnl_sol >= 100
           /\ wallet_stats[w].win_rate >= 50
           /\ wallet_stats[w].total_trades >= 5}
      buyers == Traders(Buys(get_trades(launch_time, 0, eval_time)))
      overlap == Cardinality(buyers \cap profitable_wallets)
  IN IF profitable_wallets = {}
     THEN [score |-> 0, detail |-> "no_proven_wallets"]
     ELSE IF overlap >= 3 THEN [score |-> 20, detail |-> "winners"]
     ELSE IF overlap = 2 THEN [score |-> 15, detail |-> "winners"]
     ELSE IF overlap = 1 THEN [score |-> 10, detail |-> "winner"]
     ELSE [score |-> 0, detail |-> "no_overlap"]

\* variant: the full score is granted up to a share of 80% and the half
\* score up to 90%
calculate_signal_5_buy_concentration_Shifted(launch_time, eval_time) ==
  LET buys == Buys(get_trades(launch_time, 0, eval_time))
      total_sol == TraderVolumes(buys)
      total_volume == SumOver(total_sol, DOMAIN total_sol)
      top3_volume == TopSum(total_sol, DOMAIN total_sol, 3)
  IN IF Cardinality(DOMAIN total_sol) <= 2
     THEN [score |-> 0, detail |-> "buyers_flagged"]
     ELSE IF total_volume = 0 THEN [score |-> 0, detail |-> "no_volume"]
     ELSE IF top3_volume * 100 < 80 * total_volume
     THEN [score |-> 10, detail |-> "healthy"]
     ELSE IF top3_volume * 100 < 90 * total_volume
     THEN [score |-> 5, detail |-> "moderate"]
     ELSE [score |-> 0, detail |-> "high_risk"]

calculate_signal_5_buy_concentration(launch_time, eval_time) ==
  LET buys == Buys(get_trades(launch_time, 0, eval_time))
      total_sol == TraderVolumes(buys)
      total_volume == SumOver(total_sol, DOMAIN total_sol)
      top3_volume == TopSum(total_sol, DOMAIN total_sol, 3)
  IN IF Cardinality(DOMAIN total_sol) <= 2
     THEN [score |-> 0, detail |-> "buyers_flagged"]
     ELSE IF total_volume = 0 THEN [score |-> 0, detail |-> "no_volume"]
     ELSE IF top3_volume * 100 < 70 * total_volume
     THEN [score |-> 10, detail |-> "healthy"]
     ELSE IF top3_volume * 100 < 80 * total_volume
     THEN [score |-> 5, detail |-> "moderate"]
     ELSE [score |-> 0, detail |-> "high_risk"]

\* variant: the lower tier is granted from a ratio of 1.0
calculate_signal_6_volume_acceleration_Loose(launch_time, eval_time) ==
  LET recent_vol ==
        SumAmount(Buys(get_trades(launch_time, eval_time - 30, eval_time)))
      baseline_vol ==
        SumAmount(Buys(get_trades(launch_time, eval_time - 60,
                                  eval_time - 30)))
  IN IF eval_time < 60 THEN [score |-> 0, detail |-> "insufficient_time"]
     ELSE IF baseline_vol < 10 THEN [score |-> 0, detail |-> "no_baseline"]
     ELSE IF recent_vol >= 2 * baseline_vol
     THEN [score |-> 15, detail |-> "explosive"]
     ELSE IF recent_vol >= baseline_vol
     THEN [score |-> 10, detail |-> "strong"]
     ELSE [score |-> 0, detail |-> "low"]

calculate_signal_6_volume_acceleration(launch_time, eval_time) ==
  LET recent_vol ==
        SumAmount(Buys(get_trades(launch_time, eval_time - 30, eval_time)))
      baseline_vol ==
        SumAmount(Buys(get_trades(launch_time, eval_time - 60,
                                  eval_time - 30)))
  IN IF eval_time < 60 THEN [score |-> 0, detail |-> "insufficient_time"]
     ELSE IF baseline_vol < 10 THEN [score |-> 0, detail |-> "no_baseline"]
     ELSE IF recent_vol >= 2 * baseline_vol
     THEN [score |-> 15, detail |-> "explosive"]
     ELSE IF 2 * recent_vol >= 3 * baseline_vol
     THEN [score |-> 10, detail |-> "strong"]
     ELSE [score |-> 0, detail |-> "low"]

\* variant: a missing price 30 seconds before counts as price 0
calculate_signal_7_mc_velocity_ZeroBase(launch_time, eval_time) ==
  LET cur == LatestWindow(launch_time + eval_time)
      base == LatestWindow(launch_time + eval_time - 30)
  IN IF eval_time < 30 THEN [score |-> 0, detail |-> "insufficient_time"]
     ELSE IF cur = <<>> \/ cur[1].close = 0
     THEN [score |-> 0, detail |-> "no_current_price"]
     ELSE
       LET diff == cur[1].close - (IF base = <<>> THEN 0 ELSE base[1].close)
       IN IF VelocityAtLeast(diff, 60, 30, 1000)
          THEN [score |-> 30, detail |-> "explosive"]
          ELSE IF VelocityAtLeast(diff, 60, 30, 500)
          THEN [score |-> 20, detail |-> "strong"]
          ELSE IF VelocityAtLeast(diff, 60, 30, 200)
          THEN [score |-> 10, detail |-> "moderate"]
          ELSE [score |-> 0, detail |-> "low"]

calculate_signal_7_mc_velocity(launch_time, eval_time) ==
  LET cur == LatestWindow(launch_time + eval_time)
      base == LatestWindow(launch_time + eval_time - 30)
  IN IF eval_time < 30 THEN [score |-> 0, detail |-> "insufficient_time"]
     ELSE IF cur = <<>> \/ cur[1].close = 0
     THEN [score |-> 0, detail |-> "no_current_price"]
     ELSE IF base = <<>> \/ base[1].close = 0
     THEN [score |-> 0, detail |-> "no_baseline_price"]
     ELSE
       LET diff == cur[1].close - base[1].close
       IN IF VelocityAtLeast(diff, 60, 30, 1000)
          THEN [score |-> 30, detail |-> "explosive"]
          ELSE IF VelocityAtLeast(diff, 60, 30, 500)
          THEN [score |-> 20, detail |-> "strong"]
          ELSE IF VelocityAtLeast(diff, 60, 30, 200)
          THEN [score |-> 10, detail |-> "moderate"]
          ELSE [score |-> 0, detail |-> "low"]

\* variant: the liquidity signal is reported but left out of the total
score_token_at_time_NoS3(launch_time, eval_time) ==
  LET s1 == calculate_signal_1_creator_reputation
      s2 == calculate_signal_2_buyer_speed(launch_time, eval_time)
      s3 == calculate_signal_3_liquidity_ratio(eval_time, launch_time)
      s4 == calculate_signal_4_wallet_overlap(launch_time, eval_time)
      s5 == calculate_signal_5_buy_concentration(launch_time, eval_time)
      s6 == calculate_signal_6_volume_acceleration(launch_time, eval_time)
      s7 == calculate_signal_7_mc_velocity(launch_time, eval_time)
  IN [total_score |-> s1.score + s2.score + s4.score + s5.score
                        + s6.score + s7.score,
      signal_1 |-> s1, signal_2 |-> s2, signal_3 |-> s3, signal_4 |-> s4,
      signal_5 |-> s5, signal_6 |-> s6, signal_7 |-> s7]

score_token_at_time(launch_time, eval_time) ==
  LET s1 == calculate_signal_1_creator_reputation
      s2 == calculate_signal_2_buyer_speed(launch_time, eval_time)
      s3 == calculate_signal_3_liquidity_ratio(eval_time, launch_time)
      s4 == calculate_signal_4_wallet_overlap(launch_time, eval_time)
      s5 == calculate_signal_5_buy_concentration(launch_time, eval_time)
      s6 == calculate_signal_6_volume_acceleration(launch_time, eval_time)
      s7 == calculate_signal_7_mc_velocity(launch_time, eval_time)
  IN [total_score |-> s1.score + s2.score + s3.score + s4.score + s5.score
                        + s6.score + s7.score,
      signal_1 |-> s1, signal_2 |-> s2, signal_3 |-> s3, signal_4 |-> s4,
      signal_5 |-> s5, signal_6 |-> s6, signal_7 |-> s7]

----------------------------------------------------------------------------
(* analyze_last_2_days.py: the simplified score *)

calculate_simple_score(launch_time, eval_time) ==
  LET buyers == Cardinality(Traders(Buys(get_trades(launch_time, 0, 60))))
      signal_2 ==
        IF buyers >= 10 THEN 20
        ELSE IF buyers >= 7 THEN 15
        ELSE IF buyers >= 5 THEN 10
        ELSE 0
      buys == Buys(get_trades(launch_time, 0, eval_time))
      per_trader == TraderVolumes(buys)
      total == SumAmount(buys)
      top3_sum == TopSum(per_trader, DOMAIN per_trader, 3)
      signal_5 ==
        IF Cardinality(DOMAIN per_trader) >= 3 /\ total > 0
        THEN IF top3_sum * 100 < 70 * total THEN 10
             ELSE IF top3_sum * 100 < 80 * total THEN 5
             ELSE 0
        ELSE 0
      recent ==
        SumAmount(Buys(get_trades(launch_time, eval_time - 30, eval_time)))
      baseline ==
        SumAmount(Buys(get_trades(launch_time, eval_time - 60,
                                  eval_time - 30)))
      signal_6 ==
        IF eval_time >= 60 /\ recent > 10 /\ baseline > 10
        THEN IF recent >= 2 * baseline THEN 15
             ELSE IF 2 * recent >= 3 * baseline THEN 10
             ELSE 0
        ELSE 0
      score == [signal_1 |-> 0, signal_2 |-> signal_2, signal_3 |-> 0,
                signal_5 |-> signal_5, signal_6 |-> signal_6, total |-> 0]
  IN [score EXCEPT !.total = SumOver(score, DOMAIN score) - score.total]

----------------------------------------------------------------------------
(* Strategy 6: 1M+ market-cap hunting *)

\* f"target_{int((profit_target-1)*100)}pct"
TargetReason(profit_target) ==
  IF profit_target = 150 THEN "target_50pct" ELSE "target_30pct"

\* f"stop_loss_{int((1-stop_loss)*100)}pct"; in binary floating point
\* (1 - 0.80) * 100 is 19.999999999999996 and (1 - 0.85) * 100 is
\* 15.000000000000002
StopReason(stop_loss) ==
  IF stop_loss = 85 THEN "stop_loss_15pct" ELSE "stop_loss_19pct"

\* variant of the exit loop: the profit target is tested before the
\* market-cap threshold
RECURSIVE HuntExitScan_TargetFirst(_, _, _, _, _, _, _)
HuntExitScan_TargetFirst(prices, i, launch_time, entry_price, profit_target, stop_loss, peak) ==
  IF i > Len(prices)
  THEN [exit_price |-> entry_price * 100, exit_reason |-> "time",
        exit_time |-> NoExit, peak_mc_sol |-> peak]
  ELSE
    LET p == prices[i]
        time_offset == p.start_time - launch_time
        mc_sol == p.high
        peak_mc_sol == IF mc_sol > peak THEN mc_sol ELSE peak
    IN IF time_offset <= 120
       THEN HuntExitScan_TargetFirst(prices, i + 1, launch_time, entry_price,
                                     profit_target, stop_loss, peak)
       ELSE IF p.high * 100 >= entry_price * profit_target
       THEN [exit_price |-> entry_price * profit_target,
             exit_reason |-> TargetReason(profit_target),
             exit_time |-> time_offset, peak_mc_sol |-> peak_mc_sol]
       ELSE IF peak_mc_sol \div price_scale >= MC_1M
       THEN [exit_price |-> p.close * 100, exit_reason |-> "hit_1m_mc",
             exit_time |-> time_offset, peak_mc_sol |-> peak_mc_sol]
       ELSE IF p.low * 100 < entry_price * stop_loss
       THEN [exit_price |-> entry_price * stop_loss,
             exit_reason |-> StopReason(stop_loss),
             exit_time |-> time_offset, peak_mc_sol |-> peak_mc_sol]
       ELSE IF time_offset >= 420
       THEN [exit_price |-> p.close * 100, exit_reason |-> "time_420s",
             exit_time |-> time_offset, peak_mc_sol |-> peak_mc_sol]
       ELSE HuntExitScan_TargetFirst(prices, i + 1, launch_time, entry_price,
                                     profit_target, stop_loss, peak_mc_sol)

RECURSIVE HuntExitScan(_, _, _, _, _, _, _)
HuntExitScan(prices, i, launch_time, entry_price, profit_target, stop_loss, peak) ==
  IF i > Len(prices)
  THEN [exit_price |-> entry_price * 100, exit_reason |-> "time",
        exit_time |-> NoExit, peak_mc_sol |-> peak]
  ELSE
    LET p == prices[i]
        time_offset == p.start_time - launch_time
        mc_sol == p.high
        peak_mc_sol == IF mc_sol > peak THEN mc_sol ELSE peak
    IN IF time_offset <= 120
       THEN HuntExitScan(prices, i + 1, launch_time, entry_price,
                         profit_target, stop_loss, peak)
       ELSE IF peak_mc_sol \div price_scale >= MC_1M
       THEN [exit_price |-> p.close * 100, exit_reason |-> "hit_1m_mc",
             exit_time |-> time_offset, peak_mc_sol |-> peak_mc_sol]
       ELSE IF p.high * 100 >= entry_price * profit_target
       THEN [exit_price |-> entry_price * profit_target,
             exit_reason |-> TargetReason(profit_target),
             exit_time |-> time_offset, peak_mc_sol |-> peak_mc_sol]
       ELSE IF p.low * 100 < entry_price * stop_loss
       THEN [exit_price |-> entry_price * stop_loss,
             exit_reason |-> StopReason(stop_loss),
             exit_time |-> time_offset, peak_mc_sol |-> peak_mc_sol]
       ELSE IF time_offset >= 420
       THEN [exit_price |-> p.close * 100, exit_reason |-> "time_420s",
             exit_time |-> time_offset, peak_mc_sol |-> peak_mc_sol]
       ELSE HuntExitScan(prices, i + 1, launch_time, entry_price,
                         profit_target, stop_loss, peak_mc_sol)

\* variant: the brackets start half a point higher
Sizing_Shifted(total) ==
  IF total >= 95 THEN [size |-> 100, profit_target |-> 150, stop_loss |-> 80]
  ELSE IF total >= 85
  THEN [size |-> 75, profit_target |-> 150, stop_loss |-> 85]
  ELSE IF total >= 75
  THEN [size |-> 50, profit_target |-> 130, stop_loss |-> 80]
  ELSE IF total >= 65
  THEN [size |-> 50, profit_target |-> 130, stop_loss |-> 80]
  ELSE [size |-> 30, profit_target |-> 130, stop_loss |-> 80]

\* position size (hundredths of a SOL), profit target and stop loss (percent
\* of the entry price) of a qualifying score
Sizing(total) ==
  IF total >= 90 THEN [size |-> 100, profit_target |-> 150, stop_loss |-> 80]
  ELSE IF total >= 80
  THEN [size |-> 75, profit_target |-> 150, stop_loss |-> 85]
  ELSE IF total >= 70
  THEN [size |-> 50, profit_target |-> 130, stop_loss |-> 80]
  ELSE [size |-> 30, profit_target |-> 130, stop_loss |-> 80]

\* variant: the peak has to exceed one million
hit_1m_Above(peak_mc_sol) == peak_mc_sol \div price_scale > MC_1M

\* "hit_1m": peak_mc_sol >= 1_000_000
hit_1m(peak_mc_sol) == peak_mc_sol \div price_scale >= MC_1M

\* variant: a score equal to the threshold does not qualify
test_1m_mc_hunting_Strict(launch_time, creator_wallet, prices) ==
  IF Len(prices) < 3 THEN None
  ELSE
    LET score_data == calculate_7_signal_score(launch_time, creator_wallet)
    IN IF score_data.total <= ENTRY_THRESHOLD THEN None
       ELSE
         LET e == FirstWindow(prices, launch_time, 120, 130)
         IN IF e = 0 \/ prices[e].close <= 0 THEN None
            ELSE
              LET entry_price == prices[e].close
                  z == Sizing(score_data.total)
                  x == HuntExitScan(prices, 1, launch_time, entry_price,
                                    z.profit_target, z.stop_loss, 0)
                  r == Position("1m_mc_hunting", Frac(z.size, 100),
                                entry_price,
                                prices[e].start_time - launch_time, x)
              IN [some |-> TRUE,
                  strategy |-> r.strategy,
                  position_size_sol |-> r.position_size_sol,
                  entry_price |-> r.entry_price,
                  exit_price |-> r.exit_price,
                  exit_reason |-> r.exit_reason,
                  pnl_sol |-> r.pnl_sol,
                  pnl_usd |-> r.pnl_usd,
                  entry_time |-> r.entry_time,
                  exit_time |-> r.exit_time,
                  score |-> score_data.total,
                  peak_mc_sol |-> x.peak_mc_sol,
                  hit_1m |-> hit_1m(x.peak_mc_sol)]

test_1m_mc_hunting(launch_time, creator_wallet, prices) ==
  IF Len(prices) < 3 THEN None
  ELSE
    LET score_data == calculate_7_signal_score(launch_time, creator_wallet)
    IN IF score_data.total < ENTRY_THRESHOLD THEN None
       ELSE
         LET e == FirstWindow(prices, launch_time, 120, 130)
         IN IF e = 0 \/ prices[e].close <= 0 THEN None
            ELSE
              LET entry_price == prices[e].close
                  z == Sizing(score_data.total)
                  x == HuntExitScan(prices, 1, launch_time, entry_price,
                                    z.profit_target, z.stop_loss, 0)
                  r == Position("1m_mc_hunting", Frac(z.size, 100),
                                entry_price,
                                prices[e].start_time - launch_time, x)
              IN [some |-> TRUE,
                  strategy |-> r.strategy,
                  position_size_sol |-> r.position_size_sol,
                  entry_price |-> r.entry_price,
                  exit_price |-> r.exit_price,
                  exit_reason |-> r.exit_reason,
                  pnl_sol |-> r.pnl_sol,
                  pnl_usd |-> r.pnl_usd,
                  entry_time |-> r.entry_time,
                  exit_time |-> r.exit_time,
                  score |-> score_data.total,
                  peak_mc_sol |-> x.peak_mc_sol,
                  hit_1m |-> hit_1m(x.peak_mc_sol)]

----------------------------------------------------------------------------
(* run_comprehensive_backtest: the aggregator *)

StrategyNames ==
  {"dollar_scalping", "rank_based", "momentum", "copy_trading",
   "late_opportunity", "1m_mc_hunting"}

InitResults ==
  [s \in StrategyNames |->
     IF s = "1m_mc_hunting"
     THEN [trades |-> <<>>, total_pnl |-> FracZero, wins |-> 0, losses |-> 0,
           hits_1m |-> 0]
     ELSE [trades |-> <<>>, total_pnl |-> FracZero, wins |-> 0, losses |-> 0]]

Record_WinAtZero(res, strategy_name, result) ==
  IF ~result.some THEN res
  ELSE
    LET d == res[strategy_name]
        d1 == [d EXCEPT
                 !.trades = Append(@, result),
                 !.total_pnl = FloatAdd(@, result.pnl_usd),
                 !.wins = IF result.pnl_sol.n >= 0 THEN @ + 1 ELSE @,
                 !.losses = IF result.pnl_sol.n >= 0 THEN @ ELSE @ + 1]
        d2 == IF strategy_name = "1m_mc_hunting" /\ result.hit_1m
              THEN [d1 EXCEPT !.hits_1m = @ + 1]
              ELSE d1
    IN [res EXCEPT ![strategy_name] = d2]

\* the body of "if result:" for one strategy of one token
Record(res, strategy_name, result) ==
  IF ~result.some THEN res
  ELSE
    LET d == res[strategy_name]
        d1 == [d EXCEPT
                 !.trades = Append(@, result),
                 !.total_pnl = FloatAdd(@, result.pnl_usd),
                 !.wins = IF result.pnl_sol.n > 0 THEN @ + 1 ELSE @,
                 !.losses = IF result.pnl_sol.n > 0 THEN @ ELSE @ + 1]
        d2 == IF strategy_name = "1m_mc_hunting" /\ result.hit_1m
              THEN [d1 EXCEPT !.hits_1m = @ + 1]
              ELSE d1
    IN [res EXCEPT ![strategy_name] = d2]

\* prices = self.get_price_data(mint, launch_time, 1800)
Prices == get_price_data(token.launch_block_time, 1800)

\* try: result = test_func(); if result: ... except Exception: pass
Step(k, strategy_name, result) ==
  /\ phase = "loop"
  /\ pc = k
  /\ IF <<idx, k + 1>> \in faulty
     THEN /\ caught' = caught + 1
          /\ UNCHANGED <<last, results>>
     ELSE /\ last' = result
          /\ results' = Record(results, strategy_name, result)
          /\ UNCHANGED caught
  /\ pc' = k + 1
  /\ UNCHANGED <<db, score_out, run, now, repository, phase, faulty>>

Run_dollar_scalping ==
  Step(0, "dollar_scalping",
       test_dollar_scalping(token.launch_block_time, Prices))

Run_rank_based ==
  Step(1, "rank_based",
       test_rank_based(token.launch_block_time, Prices,
                       total_volume_5min(token.launch_block_time)))

Run_momentum ==
  Step(2, "momentum", test_momentum(token.launch_block_time, Prices))

Run_copy_trading ==
  Step(3, "copy_trading", test_copy_trading(token.launch_block_time, Prices))

Run_late_opportunity ==
  Step(4, "late_opportunity",
       test_late_opportunity(token.launch_block_time, Prices))

Run_1m_mc_hunting ==
  Step(5, "1m_mc_hunting",
       test_1m_mc_hunting(token.launch_block_time, token.creator_wallet,
                          Prices))

----------------------------------------------------------------------------
(* Explored inputs *)

Row(net_pnl_sol, create_count, profit_score, win_rate, total_trades) ==
  [exists |-> TRUE, net_pnl_sol |-> net_pnl_sol,
   create_count |-> create_count, profit_score |-> profit_score,
   win_rate |-> win_rate, total_trades |-> total_trades]

RowS == Row(600, 6, 90, 75, 60)
RowA == Row(250, 3, 80, 65, 25)
RowB == Row(120, 1, 70, 55, 12)
RowC == Row(60, 0, 55, 40, 6)
RowD == Row(0, 0, 10, 10, 1)

\* n buys, one per trader from first_trader on, every step seconds from
\* offset t0
Burst(first_trader, n, t0, step, amount) ==
  [i \in 1..n |->
     [trader |-> first_trader + i - 1, amount_sol |-> amount, side |-> "buy",
      block_time |-> LaunchTime + t0 + step * (i - 1)]]

Sell(trader, t, amount) ==
  <<[trader |-> trader, amount_sol |-> amount, side |-> "sell",
     block_time |-> LaunchTime + t]>>

\* OHLC shapes of a window, relative to a price of 100 units
Shapes ==
  << [close |-> 100, high |-> 100, low |-> 100, vol_sol |-> 500],
     [close |-> 101, high |-> 102, low |-> 99, vol_sol |-> 1000],
     [close |-> 150, high |-> 160, low |-> 100, vol_sol |-> 1000],
     [close |-> 75, high |-> 100, low |-> 70, vol_sol |-> 1000],
     [close |-> 100, high |-> 160, low |-> 70, vol_sol |-> 1000],
     [close |-> 200, high |-> 1000000, low |-> 70, vol_sol |-> 1000] >>

Window(offset, shape) ==
  [start_time |-> LaunchTime + offset, close |-> Shapes[shape].close,
   high |-> Shapes[shape].high, low |-> Shapes[shape].low,
   vol_sol |-> Shapes[shape].vol_sol]

FirstOffsets == {0, 5, 30, 120}
Gaps == {WINDOW_SEC, 2 * WINDOW_SEC}

RECURSIVE OffsetOf(_, _, _)
OffsetOf(first, gaps, i) ==
  IF i = 1 THEN first ELSE OffsetOf(first, gaps, i - 1) + gaps[i - 1]

\* LatePrefix quiet windows from launch on, one per WINDOW_SEC
Quiet == [i \in 1..LatePrefix |-> Window(WINDOW_SEC * (i - 1), 1)]

PricePath(aged, first, gaps, shapes) ==
  IF aged
  THEN Quiet \o [i \in 1..Len(shapes) |->
                   Window(WINDOW_SEC * LatePrefix
                            + OffsetOf(first, gaps, i), shapes[i])]
  ELSE [i \in 1..Len(shapes) |-> Window(OffsetOf(first, gaps, i), shapes[i])]

Moves(shapes) == Cardinality({i \in DOMAIN shapes : shapes[i] # 1})

\* trades and wallet records of a token: a quiet token, a busy token bought
\* by elite wallets, a busy token bought by acceptable wallets, a thin token
\* of an excellent creator, a thin token of a profitable creator, a token
\* whose first buys are a small one, one by a wallet without record and a
\* sell before two buys by elite wallets
TradeProfiles ==
  << [trades |-> <<>>, trader_row |-> NoRow, creator_row |-> NoRow,
      unknown |-> {}],
     [trades |-> Burst(1, 10, 3, 5, 50) \o Burst(1, 2, 65, 10, 100)
                   \o Sell(1, 80, 100) \o Burst(3, 3, 95, 10, 100)
                   \o Burst(1, 10, 1200, 5, 100),
      trader_row |-> RowS, creator_row |-> RowS, unknown |-> {}],
     [trades |-> Burst(1, 10, 3, 5, 50) \o Burst(1, 2, 65, 10, 100)
                   \o Burst(3, 3, 95, 10, 100)
                   \o Burst(1, 10, 1200, 5, 100),
      trader_row |-> RowC, creator_row |-> NoRow, unknown |-> {}],
     [trades |-> Burst(1, 3, 3, 5, 50) \o Burst(1, 2, 65, 10, 100)
                   \o Burst(3, 3, 95, 10, 100),
      trader_row |-> RowD, creator_row |-> RowA, unknown |-> {}],
     [trades |-> Burst(1, 3, 3, 5, 50) \o Burst(1, 2, 65, 10, 100)
                   \o Burst(3, 3, 95, 10, 100),
      trader_row |-> RowD, creator_row |-> RowC, unknown |-> {}],
     [trades |-> Burst(1, 1, 3, 0, 10) \o Burst(2, 1, 8, 0, 100)
                   \o Sell(3, 12, 100) \o Burst(4, 2, 58, 1, 100),
      trader_row |-> RowS, creator_row |-> NoRow, unknown |-> {2}] >>

Creator == 0
TraderIds == 1..10

\* qualified = [t for t in tokens if t["total_volume_5min"] >= 10.0], and
\* a token without price windows is passed over
Qualified ==
  /\ total_volume_5min(token.launch_block_time) >= 1000
  /\ Prices # <<>>

DAY == 86400

\* a run in its loop, at the first of the tokens it has selected, started
\* an hour after their launch and with no call that raises
Started ==
  /\ now = LaunchTime + 3600
  /\ repository = batch
  /\ phase = "loop"
  /\ faulty = {}
  /\ caught = 0

Init ==
  /\ price_scale = 1
  /\ token = [launch_block_time |-> LaunchTime, creator_wallet |-> Creator,
              initial_liquidity_sol |-> 3000]
  /\ \E n \in 1..MaxWindows, first \in FirstOffsets, aged \in BOOLEAN :
       \E gaps \in [1..(n - 1) -> Gaps], shapes \in [1..n -> 1..Len(Shapes)] :
          /\ Moves(shapes) <= MaxMoves
          /\ windows = PricePath(aged, first, gaps, shapes)
  /\ Qualified
  /\ \E q \in 1..Len(TradeProfiles) :
       /\ trades = TradeProfiles[q].trades
       /\ wallet_stats = [w \in {Creator} \cup TraderIds |->
                            IF w = Creator THEN TradeProfiles[q].creator_row
                            ELSE IF w \in TradeProfiles[q].unknown THEN NoRow
                            ELSE TradeProfiles[q].trader_row]
  /\ pc = 0
  /\ results = InitResults
  /\ last = None
  /\ score_out = None
  /\ batch = <<[launch_block_time |-> LaunchTime, windows |-> windows,
               trades |-> trades]>>
  /\ idx = 1
  /\ Started

Next ==
  \/ Run_dollar_scalping
  \/ Run_rank_based
  \/ Run_momentum
  \/ Run_copy_trading
  \/ Run_late_opportunity
  \/ Run_1m_mc_hunting

Spec == Init /\ [][Next]_vars

----------------------------------------------------------------------------
(* The loop over the qualified tokens *)

\* tokens of a batch: flat, rising, falling, drifting and exploding prices
\* without trades, and rising and (a window later) exploding prices with the
\* busy trade tape
BatchTokens ==
  << [shapes |-> <<1, 1, 1>>, profile |-> 1],
     [shapes |-> <<1, 1, 3>>, profile |-> 1],
     [shapes |-> <<1, 1, 4>>, profile |-> 1],
     [shapes |-> <<1, 1, 2>>, profile |-> 1],
     [shapes |-> <<1, 1, 6>>, profile |-> 1],
     [shapes |-> <<1, 1, 3>>, profile |-> 2],
     [shapes |-> <<1, 1, 1, 6>>, profile |-> 2] >>

BatchToken(j) ==
  [launch_block_time |-> LaunchTime,
   windows |-> PricePath(FALSE, 0,
                         [i \in 1..(Len(BatchTokens[j].shapes) - 1) |->
                            WINDOW_SEC],
                         BatchTokens[j].shapes),
   trades |-> TradeProfiles[BatchTokens[j].profile].trades]

\* the tokens of a batch are launched at different times; every query is
\* relative to the launch, so the model gives them all the same launch time
BatchInit ==
  /\ price_scale = 1
  /\ token = [launch_block_time |-> LaunchTime, creator_wallet |-> Creator,
              initial_liquidity_sol |-> 3000]
  /\ \E n \in 1..MaxTokens :
       \E order \in [1..n -> 1..Len(BatchTokens)] :
          batch = [i \in 1..n |-> BatchToken(order[i])]
  /\ idx = 1
  /\ windows = batch[1].windows
  /\ trades = batch[1].trades
  /\ wallet_stats = [w \in {Creator} \cup TraderIds |->
                       IF w = Creator THEN TradeProfiles[2].creator_row
                       ELSE TradeProfiles[2].trader_row]
  /\ Qualified
  /\ pc = 0
  /\ results = InitResults
  /\ last = None
  /\ score_out = None
  /\ Started

\* for i, token in enumerate(qualified[:1000]): the next token of the batch
\* once the six strategies have run on this one; the price query is outside
\* the try statement, so an exception of it leaves the function
NextToken ==
  /\ phase = "loop"
  /\ pc = Cardinality(StrategyNames)
  /\ idx < Len(batch)
  /\ IF <<idx + 1, 0>> \in faulty
     THEN /\ phase' = "raised"
          /\ UNCHANGED <<token, windows, trades, pc, idx>>
     ELSE /\ idx' = idx + 1
          /\ token' = [token EXCEPT !.launch_block_time =
                                      batch[idx + 1].launch_block_time]
          /\ windows' = batch[idx + 1].windows
          /\ trades' = batch[idx + 1].trades
          /\ pc' = 0
          /\ UNCHANGED phase
  /\ UNCHANGED <<price_scale, wallet_stats, results, last, score_out, batch,
                 now, repository, faulty, caught>>

BatchNext ==
  \/ Run_dollar_scalping
  \/ Run_rank_based
  \/ Run_momentum
  \/ Run_copy_trading
  \/ Run_late_opportunity
  \/ Run_1m_mc_hunting
  \/ NextToken

BatchSpec == BatchInit /\ [][BatchNext]_vars

----------------------------------------------------------------------------
(* A whole run: token selection, the loop over the tokens, the report *)

\* the rows in descending launch_block_time, rows of one launch time in the
\* order of the table
RECURSIVE ByLaunchDesc(_)
ByLaunchDesc(rows) ==
  IF rows = <<>> THEN <<>>
  ELSE LET t == Head(rows)
           rest == ByLaunchDesc(Tail(rows))
       IN SelectSeq(rest, LAMBDA r : r.launch_block_time > t.launch_block_time)
            \o <<t>>
            \o SelectSeq(rest,
                         LAMBDA r : r.launch_block_time <= t.launch_block_time)

\* the tokens query run at time at: cutoff_time = now - days, launches at or
\* after it, newest first
TokensSince(rows, at, days) ==
  ByLaunchDesc(SelectSeq(rows, LAMBDA t :
                           /\ t.launch_block_time >= at - days * DAY
                           /\ t.launch_block_time > 0))

get_tokens_last_n_days(days) == TokensSince(repository, now, days)

\* total_volume_5min of a row of the tokens query
RowVolume(t) ==
  SumVol(SelectSeq(t.windows, LAMBDA w :
                     /\ w.start_time >= t.launch_block_time
                     /\ w.start_time <= t.launch_block_time + 300))

\* qualified = [t for t in tokens if t["total_volume_5min"] >= 10.0]
QualifiedOf(tokens) == SelectSeq(tokens, LAMBDA t : RowVolume(t) >= 1000)

\* tokens = self.get_tokens_last_n_days(days) up to the loop; the message
\* about the qualified tokens divides by len(tokens)
Start ==
  /\ phase = "start"
  /\ LET tokens == get_tokens_last_n_days(30)
     IN IF tokens = <<>>
        THEN /\ phase' = "raised"
             /\ UNCHANGED batch
        ELSE /\ phase' = "loop"
             /\ batch' = QualifiedOf(tokens)
  /\ UNCHANGED <<db, pc, results, last, score_out, idx, now, repository,
                 faulty, caught>>

RECURSIVE TotalTrades(_, _)
TotalTrades(res, names) ==
  IF names = {} THEN 0
  ELSE LET s == CHOOSE x \in names : TRUE
       IN Len(res[s].trades) + TotalTrades(res, names \ {s})

\* self.print_comprehensive_results(results, days); return results: the
\* "Per trade" line divides by the number of trades of all strategies
Report ==
  /\ phase = "loop"
  /\ pc = Cardinality(StrategyNames)
  /\ idx = Len(batch)
  /\ phase' = IF TotalTrades(results, StrategyNames) = 0
              THEN "raised" ELSE "returned"
  /\ UNCHANGED <<db, pc, results, last, score_out, run, now, repository,
                 faulty, caught>>

\* the windows of a token launched delay seconds after LaunchTime
Delayed(ws, delay) ==
  [i \in DOMAIN ws |-> [ws[i] EXCEPT !.start_time = @ + delay]]

\* rows of the tokens table: a token under the volume floor, a rising token,
\* and a rising token launched a day later
RunTokens ==
  << [launch_block_time |-> LaunchTime,
      windows |-> PricePath(FALSE, 0, <<>>, <<1>>), trades |-> <<>>],
     [launch_block_time |-> LaunchTime,
      windows |-> PricePath(FALSE, 0, <<WINDOW_SEC, WINDOW_SEC>>, <<1, 1, 3>>),
      trades |-> <<>>],
     [launch_block_time |-> LaunchTime + DAY,
      windows |-> Delayed(PricePath(FALSE, 0, <<WINDOW_SEC, WINDOW_SEC>>,
                                    <<1, 1, 3>>), DAY),
      trades |-> <<>>] >>

\* a run within a day of the last launch, and a run 30 days after the first
NowTimes == {LaunchTime + DAY + 3600, LaunchTime + 30 * DAY + 3600}

\* the calls of the loop: the price query (0) and the six simulators
FaultPoints == (1..MaxTokens) \X (0..Cardinality(StrategyNames))

RunInit ==
  /\ price_scale = 1
  /\ token = [launch_block_time |-> LaunchTime, creator_wallet |-> Creator,
              initial_liquidity_sol |-> 3000]
  /\ windows = <<>>
  /\ trades = <<>>
  /\ wallet_stats = [w \in {Creator} \cup TraderIds |->
                       IF w = Creator THEN TradeProfiles[2].creator_row
                       ELSE TradeProfiles[2].trader_row]
  /\ \E n \in 0..MaxTokens :
       \E order \in [1..n -> 1..Len(RunTokens)] :
          repository = [i \in 1..n |-> RunTokens[order[i]]]
  /\ now \in NowTimes
  /\ faulty \in {{}} \cup {{p} : p \in FaultPoints}
  /\ caught = 0
  /\ phase = "start"
  /\ batch = <<>>
  /\ idx = 0
  /\ pc = Cardinality(StrategyNames)
  /\ results = InitResults
  /\ last = None
  /\ score_out = None

RunNext ==
  \/ Start
  \/ NextToken
  \/ Run_dollar_scalping
  \/ Run_rank_based
  \/ Run_momentum
  \/ Run_copy_trading
  \/ Run_late_opportunity
  \/ Run_1m_mc_hunting
  \/ Report

RunSpec == RunInit /\ [][RunNext]_vars

----------------------------------------------------------------------------
(* The scoring functions on their own *)

EVAL_TIMES == {30, 60, 120, 300}

Scored(fn, eval_time, score) ==
  /\ score_out' = [some |-> TRUE, fn |-> fn, eval_time |-> eval_time,
                   score |-> score]
  /\ UNCHANGED <<db, pc, results, last, run, env>>

Score_token_at_time ==
  \E eval_time \in EVAL_TIMES :
     Scored("score_token_at_time", eval_time,
            score_token_at_time(token.launch_block_time, eval_time))

Calculate_7_signal_score ==
  Scored("calculate_7_signal_score", 120,
         calculate_7_signal_score(token.launch_block_time,
                                  token.creator_wallet))

Calculate_simple_score ==
  Scored("calculate_simple_score", 120,
         calculate_simple_score(token.launch_block_time, 120))

BuySteps == {0, 3, 6, 12}

\* trader i buys at offset step * (i - 1); with whale, trader 1 buys ten
\* times the others' amount
BuyerTrades(n, step, whale) ==
  [i \in 1..n |->
     [trader |-> i, amount_sol |-> IF whale /\ i = 1 THEN 1000 ELSE 100,
      side |-> "buy", block_time |-> LaunchTime + step * (i - 1)]]

\* buys of amount 0 by n traders
DustTrades(n, step) ==
  [i \in 1..n |->
     [trader |-> i, amount_sol |-> 0, side |-> "buy",
      block_time |-> LaunchTime + step * (i - 1)]]

\* a sell by a wallet that never buys and a second buy by trader 1
ExtraTrades ==
  Sell(MaxBuyers + 1, 10, 100) \o Burst(1, 1, 100, 0, 300)

\* a second buy by trader 1 within the first minute
RepeatTrades == Burst(1, 1, 20, 0, 100)

RECURSIVE SortedByTime(_)
SortedByTime(ts) ==
  IF ts = <<>> THEN <<>>
  ELSE LET m == Min(BlockTimes(ts))
       IN SelectSeq(ts, LAMBDA t : t.block_time = m)
            \o SortedByTime(SelectSeq(ts, LAMBDA t : t.block_time # m))

ClosesPath(closes) ==
  [i \in 1..Len(closes) |->
     [start_time |-> LaunchTime + WINDOW_SEC * (i - 1), close |-> closes[i],
      high |-> closes[i], low |-> closes[i], vol_sol |-> 1000]]

\* creator record, initial liquidity and window closes of a token, the
\* prices in units of 10^-7 SOL
TokenProfiles ==
  << [creator_row |-> NoRow, liquidity |-> 0, closes |-> <<>>],
     [creator_row |-> RowS, liquidity |-> 3000, closes |-> <<280, 283, 320>>],
     [creator_row |-> RowA, liquidity |-> 100000,
      closes |-> <<280, 281, 284>>],
     [creator_row |-> RowC, liquidity |-> 200000,
      closes |-> <<280, 280, 270>>],
     [creator_row |-> RowD, liquidity |-> 3000, closes |-> <<280, 295>>],
     [creator_row |-> NoRow, liquidity |-> 3000, closes |-> <<0, 0, 280>>] >>

ScoreInit ==
  /\ price_scale = 10000000
  /\ \E n \in 0..MaxBuyers, step \in BuySteps, whale \in BOOLEAN,
        dust \in BOOLEAN, extra \in 0..2 :
       trades = SortedByTime((IF dust THEN DustTrades(n, step)
                              ELSE BuyerTrades(n, step, whale))
                               \o (CASE extra = 1 -> ExtraTrades
                                      [] extra = 2 -> RepeatTrades
                                      [] OTHER -> <<>>))
  /\ \E q \in 1..Len(TokenProfiles), r \in 0..3 :
       /\ token = [launch_block_time |-> LaunchTime,
                   creator_wallet |-> Creator,
                   initial_liquidity_sol |-> TokenProfiles[q].liquidity]
       /\ windows = ClosesPath(TokenProfiles[q].closes)
       /\ wallet_stats = [w \in 0..(MaxBuyers + 1) |->
                            IF w = Creator THEN TokenProfiles[q].creator_row
                            ELSE IF w <= r THEN RowS
                            ELSE NoRow]
  /\ pc = 0
  /\ results = InitResults
  /\ last = None
  /\ score_out = None
  /\ batch = <<[launch_block_time |-> LaunchTime, windows |-> windows,
               trades |-> trades]>>
  /\ idx = 1
  /\ Started

ScoreNext ==
  \/ Score_token_at_time
  \/ Calculate_7_signal_score
  \/ Calculate_simple_score

ScoreSpec == ScoreInit /\ [][ScoreNext]_vars

----------------------------------------------------------------------------
(* Properties of the strategy simulators *)

FixedStrategies ==
  {"dollar_scalping", "rank_based", "momentum", "copy_trading",
   "late_opportunity"}

\* target, stop, maximum hold and exit reasons each strategy declares
Rule(strategy) ==
  CASE strategy = "dollar_scalping" ->
         [target_pct |-> 3, stop_pct |-> 98, hold |-> 20,
          target_reason |-> "profit_3pct", stop_reason |-> "stop_loss",
          time_reason |-> "time_20s"]
    [] strategy = "rank_based" ->
         [target_pct |-> 30, stop_pct |-> 80, hold |-> 30,
          target_reason |-> "target_30pct",
          stop_reason |-> "stop_loss_20pct", time_reason |-> "time_30s"]
    [] strategy = "momentum" ->
         [target_pct |-> 50, stop_pct |-> 85, hold |-> 120,
          target_reason |-> "target_50pct",
          stop_reason |-> "stop_loss_15pct", time_reason |-> "time_120s"]
    [] strategy = "copy_trading" ->
         [target_pct |-> 20, stop_pct |-> 90, hold |-> 15,
          target_reason |-> "target_20pct",
          stop_reason |-> "stop_loss_10pct", time_reason |-> "time_15s"]
    [] strategy = "late_opportunity" ->
         [target_pct |-> 25, stop_pct |-> 80, hold |-> 300,
          target_reason |-> "target_25pct",
          stop_reason |-> "stop_loss_20pct", time_reason |-> "time_300s"]
    [] OTHER ->
         [target_pct |-> 0, stop_pct |-> 0, hold |-> 420,
          target_reason |-> "", stop_reason |-> "",
          time_reason |-> "time_420s"]

\* the window of the token that starts at the given offset from launch
WindowAt(offset) ==
  Prices[CHOOSE i \in 1..Len(Prices) :
           Prices[i].start_time - token.launch_block_time = offset]

Exited == last.some /\ last.exit_time # NoExit

EntryPrice == last.entry_price \div 100

TargetAt(w, pct) == (w.high - EntryPrice) * 100 >= pct * EntryPrice

StopAt(w, pct) == w.low * 100 < EntryPrice * pct

\* C1: every position whose exit loop fired exits at a window that starts
\* strictly later than the window whose close was its entry price.
C1_ExitAfterEntry == Exited => last.exit_time > last.entry_time

\* C2: for strategies 1 to 5, at the window where the exit fired, the profit
\* target wins over the stop loss when both hold, the stop loss is recorded
\* only when the target does not hold, and the timeout only when neither
\* holds.
C2_TargetThenStopThenTime ==
  (Exited /\ last.strategy \in FixedStrategies) =>
    LET w == WindowAt(last.exit_time)
        r == Rule(last.strategy)
    IN /\ TargetAt(w, r.target_pct) => last.exit_reason = r.target_reason
       /\ (~TargetAt(w, r.target_pct) /\ StopAt(w, r.stop_pct))
            => last.exit_reason = r.stop_reason
       /\ last.exit_reason = r.time_reason
            => (~TargetAt(w, r.target_pct) /\ ~StopAt(w, r.stop_pct))

C2_Witness ==
  /\ Exited
  /\ last.strategy \in FixedStrategies
  /\ TargetAt(WindowAt(last.exit_time), Rule(last.strategy).target_pct)
  /\ StopAt(WindowAt(last.exit_time), Rule(last.strategy).stop_pct)
  /\ last.exit_reason = Rule(last.strategy).target_reason

HitAt(w) == w.high \div price_scale >= MC_1M

HuntTargetAt(w) == w.high * 100 >= EntryPrice * Sizing(last.score).profit_target

HuntStopAt(w) == w.low * 100 < EntryPrice * Sizing(last.score).stop_loss

\* C3: the score-gated strategy decides the exit window in the order
\* market-cap threshold (exit at the window's close), profit target (exit at
\* entry times target), stop loss (exit at entry times stop), timeout (exit
\* at the window's close).
C3_HuntExitOrder ==
  (Exited /\ last.strategy = "1m_mc_hunting") =>
    LET w == WindowAt(last.exit_time)
        z == Sizing(last.score)
    IN /\ HitAt(w) =>
            /\ last.exit_reason = "hit_1m_mc"
            /\ last.exit_price = w.close * 100
       /\ (~HitAt(w) /\ HuntTargetAt(w)) =>
            /\ last.exit_reason = TargetReason(z.profit_target)
            /\ last.exit_price = EntryPrice * z.profit_target
       /\ (~HitAt(w) /\ ~HuntTargetAt(w) /\ HuntStopAt(w)) =>
            /\ last.exit_reason = StopReason(z.stop_loss)
            /\ last.exit_price = EntryPrice * z.stop_loss
       /\ (~HitAt(w) /\ ~HuntTargetAt(w) /\ ~HuntStopAt(w)) =>
            /\ last.exit_reason = "time_420s"
            /\ last.exit_price = w.close * 100

C3_Witness ==
  /\ Exited
  /\ last.strategy = "1m_mc_hunting"
  /\ HitAt(WindowAt(last.exit_time))
  /\ HuntTargetAt(WindowAt(last.exit_time))
  /\ HuntStopAt(WindowAt(last.exit_time))
  /\ last.exit_reason = "hit_1m_mc"

\* C4: a position whose exit loop never fired is closed at the close of the
\* last observed window, with the time reason.
C4_ClosedAtLastClose ==
  (last.some /\ last.exit_time = NoExit) =>
    /\ last.exit_price = Prices[Len(Prices)].close * 100
    /\ last.exit_reason = "time"

\* C5: a timeout exit is recorded at a window that starts at least the
\* strategy's maximum hold after the entry window.
C5_TimeoutAfterHold ==
  (Exited /\ last.exit_reason = Rule(last.strategy).time_reason) =>
    last.exit_time - last.entry_time >= Rule(last.strategy).hold

\* no window of the history starts at an offset within [lo, hi]
NoneIn(lo, hi) ==
  \A i \in 1..Len(Prices) :
     LET off == Prices[i].start_time - token.launch_block_time
     IN off < lo \/ off > hi

\* whether the strategy run at position k has no window in its entry interval
NoEntryWindow(k) ==
  LET lt == token.launch_block_time
      early == get_trades(lt, 0, 60)
      j == ProfitableTrade(early)
  IN CASE k = 0 -> NoneIn(30, 60)
       [] k = 1 -> NoneIn(60, 120)
       [] k = 2 -> NoneIn(120, 130)
       [] k = 3 -> /\ j # 0
                   /\ \A i \in 1..Len(Prices) :
                        Abs((Prices[i].start_time - lt)
                              - (early[j].block_time - lt)) >= 10
       [] k = 4 -> NoneIn(1200, 1260)
       [] k = 5 -> NoneIn(120, 130)
       [] OTHER -> FALSE

\* C6: a strategy that finds no window in its entry interval returns no
\* position and the step leaves every strategy's statistics as they were.
C6_NoEntryNoTrade ==
  [][\A k \in 0..5 :
       (pc = k /\ NoEntryWindow(k)) => (~last'.some /\ results' = results)]_vars

C6_Witness ==
  /\ pc = 2
  /\ NoEntryWindow(1)
  /\ Len(Prices) >= 3
  /\ total_volume_5min(token.launch_block_time) >= 2000
  /\ ~last.some
  /\ Len(results["dollar_scalping"].trades) = 1
  /\ results["rank_based"] = InitResults["rank_based"]

----------------------------------------------------------------------------
(* Properties of the scoring functions *)

SignalMax == <<20, 20, 15, 20, 10, 15, 30>>

SevenSignal ==
  /\ score_out.some
  /\ score_out.fn \in {"score_token_at_time", "calculate_7_signal_score"}

\* the seven contributions and the total of a seven-signal result
Contribution ==
  LET s == score_out.score
  IN IF score_out.fn = "score_token_at_time"
     THEN <<s.signal_1.score, s.signal_2.score, s.signal_3.score,
            s.signal_4.score, s.signal_5.score, s.signal_6.score,
            s.signal_7.score>>
     ELSE <<s.signal_1, s.signal_2, s.signal_3, s.signal_4, s.signal_5,
            s.signal_6, s.signal_7>>

Total ==
  IF score_out.fn = "score_token_at_time"
  THEN score_out.score.total_score
  ELSE score_out.score.total

\* C7: in both seven-signal implementations every contribution lies between
\* 0 and its declared maximum and the total does not exceed the sum of the
\* maxima (13.0).
C7_SignalsBounded ==
  SevenSignal =>
    /\ \A i \in 1..7 : Contribution[i] >= 0 /\ Contribution[i] <= SignalMax[i]
    /\ Total <= SignalMax[1] + SignalMax[2] + SignalMax[3] + SignalMax[4]
                  + SignalMax[5] + SignalMax[6] + SignalMax[7]

C7_Witness ==
  /\ SevenSignal
  /\ score_out.fn = "score_token_at_time"
  /\ Contribution[2] = SignalMax[2]
  /\ Contribution[7] = SignalMax[7]
  /\ Total >= ENTRY_THRESHOLD

\* C8: the total a scoring function returns is the sum of the per-signal
\* contributions it reports (seven for the two full scorers, signals 1, 2,
\* 3, 5 and 6 for the simplified one).
C8_TotalIsSum ==
  score_out.some =>
    IF SevenSignal
    THEN Total = Contribution[1] + Contribution[2] + Contribution[3]
                   + Contribution[4] + Contribution[5] + Contribution[6]
                   + Contribution[7]
    ELSE score_out.score.total
           = score_out.score.signal_1 + score_out.score.signal_2
               + score_out.score.signal_3 + score_out.score.signal_5
               + score_out.score.signal_6

C8_Witness ==
  /\ SevenSignal
  /\ score_out.fn = "score_token_at_time"
  /\ Contribution[3] > 0
  /\ Contribution[5] > 0
  /\ Total > Contribution[3] + Contribution[5]

\* distinct buyers from launch to the given offset
BuyersUntil(offset) ==
  Traders(Buys(get_trades(token.launch_block_time, 0, offset)))

Signal5 ==
  IF SevenSignal THEN Contribution[5] ELSE score_out.score.signal_5

\* C9: with fewer than 3 distinct buyers in the concentration window,
\* signal 5 contributes 0 in every scoring implementation.
C9_FewBuyersNoConcentration ==
  score_out.some =>
    (Cardinality(BuyersUntil(score_out.eval_time)) < 3 => Signal5 = 0)

C9_Witness ==
  /\ score_out.some
  /\ score_out.fn = "calculate_7_signal_score"
  /\ Cardinality(BuyersUntil(120)) = 2
  /\ SumAmount(Buys(get_trades(token.launch_block_time, 0, 120))) > 0
  /\ Signal5 = 0

Signal2 ==
  IF SevenSignal THEN Contribution[2] ELSE score_out.score.signal_2

\* C10: signal 2 is determined by the number of distinct buyers in the first
\* 60 seconds alone: 2.0 from 10 buyers, 1.5 from 7, 1.0 from 5, else 0.
C10_Signal2ByBuyerCount ==
  score_out.some =>
    LET c == Cardinality(BuyersUntil(60))
    IN Signal2 = IF c >= 10 THEN 20
                 ELSE IF c >= 7 THEN 15
                 ELSE IF c >= 5 THEN 10
                 ELSE 0

\* distinct buyers until the given offset whose tier is S, A or B
ReputableBuyers(offset) ==
  {w \in BuyersUntil(offset) : get_wallet_tier(w) \in {"S", "A", "B"}}

\* C11: signal 4 is determined by the number of distinct buyers of tier S,
\* A or B in the window: 2.0 from three, 1.5 for two, 1.0 for one, else 0;
\* a wallet that buys several times counts once.
C11_Signal4ByReputableBuyers ==
  SevenSignal =>
    LET c == Cardinality(ReputableBuyers(
               IF score_out.fn = "score_token_at_time"
               THEN score_out.eval_time ELSE 60))
    IN Contribution[4] = IF c >= 3 THEN 20
                         ELSE IF c = 2 THEN 15
                         ELSE IF c = 1 THEN 10
                         ELSE 0

Signal6 ==
  IF SevenSignal THEN Contribution[6] ELSE score_out.score.signal_6

\* buy volume between two offsets from launch
BuyVolume(start_offset, end_offset) ==
  SumAmount(Buys(get_trades(token.launch_block_time, start_offset,
                            end_offset)))

BoughtBy(w, offset) ==
  SumAmount(SelectSeq(Buys(get_trades(token.launch_block_time, 0, offset)),
                      LAMBDA t : t.trader = w))

\* the greatest volume any three distinct buyers bought until the offset
Top3Volume(offset) ==
  LET B == BuyersUntil(offset)
      vol == [w \in B |-> BoughtBy(w, offset)]
      sums == {vol[t[1]] + vol[t[2]] + vol[t[3]] :
                 t \in {u \in B \X B \X B : u[1] < u[2] /\ u[2] < u[3]}}
  IN CHOOSE v \in sums : \A u \in sums : u <= v

\* C13: with at least 3 distinct buyers and a positive buy volume, signal 5
\* is 1.0 when the three largest buyers hold less than 70% of the buy
\* volume, 0.5 from 70% to less than 80%, and 0 from 80%.
C13_Signal5ByTop3Share ==
  score_out.some =>
    LET E == score_out.eval_time
        total == BuyVolume(0, E)
    IN (Cardinality(BuyersUntil(E)) >= 3 /\ total > 0) =>
         Signal5 = IF Top3Volume(E) * 100 < 70 * total THEN 10
                   ELSE IF Top3Volume(E) * 100 < 80 * total THEN 5
                   ELSE 0

C13_Witness ==
  /\ score_out.some
  /\ score_out.fn = "score_token_at_time"
  /\ Cardinality(BuyersUntil(score_out.eval_time)) = 4
  /\ Top3Volume(score_out.eval_time) * 100
       = 75 * BuyVolume(0, score_out.eval_time)
  /\ Signal5 = 5

\* market-cap change per minute between 30 seconds before the evaluation
\* instant and the evaluation instant, in SOL; 0 without price data
McRate(eval_time) ==
  LET cur == LatestWindow(token.launch_block_time + eval_time)
      base == LatestWindow(token.launch_block_time + eval_time - 30)
  IN IF cur = <<>> \/ base = <<>> \/ eval_time < 30 THEN 0
     ELSE (cur[1].close - base[1].close) * (TOKEN_SUPPLY \div price_scale) * 2

\* C14: signal 7 is 3.0 when the market cap grew by at least 1000 per minute
\* over the 30 seconds before the evaluation instant, 2.0 from 500, 1.0 from
\* 200, and 0 below that.
C14_Signal7ByMcRate ==
  SevenSignal =>
    LET rate == McRate(score_out.eval_time)
    IN Contribution[7] = IF rate >= 1000 THEN 30
                         ELSE IF rate >= 500 THEN 20
                         ELSE IF rate >= 200 THEN 10
                         ELSE 0

----------------------------------------------------------------------------
(* Properties of the score-gated strategy and of the results *)

\* the composite score of the token being processed
TokenScore ==
  calculate_7_signal_score(token.launch_block_time, token.creator_wallet).total

\* C15: the score-gated strategy returns no position for a score under 6.0,
\* whatever the prices are, and returns one for a score of 6.0 or more when
\* the history has a window in the entry interval.
C15_ScoreGate ==
  [][pc = 5 =>
       /\ TokenScore < 60 => (~last'.some /\ results' = results)
       /\ (TokenScore >= 60 /\ Len(Prices) >= 3 /\ ~NoneIn(120, 130))
            => (last'.some /\ last'.score = TokenScore)]_vars

C15_Witness ==
  /\ pc = 6
  /\ last.some
  /\ last.strategy = "1m_mc_hunting"
  /\ last.score = 60
  /\ TokenScore = 60

Hunted == last.some /\ last.strategy = "1m_mc_hunting"

\* the sizing table by score bracket: size in hundredths of a SOL, target
\* and stop in percent of the entry price
Bracket(score) ==
  IF score < 70 THEN <<30, 130, 80>>
  ELSE IF score < 80 THEN <<50, 130, 80>>
  ELSE IF score < 90 THEN <<75, 150, 85>>
  ELSE <<100, 150, 80>>

\* C16: the score-gated position's size is the one of its score bracket (0.30,
\* 0.50, 0.75, 1.0 from 6, 7, 8, 9), at most 1.0, and its target and stop
\* exits are priced with the bracket's pair (1.30 and 0.80 for [6,7)).
C16_SizeByBracket ==
  Hunted =>
    LET b == Bracket(last.score)
    IN /\ last.position_size_sol.n * 100 = b[1] * last.position_size_sol.d
       /\ last.position_size_sol.n <= last.position_size_sol.d
       /\ last.exit_reason \in {"target_30pct", "target_50pct"}
            => last.exit_price = EntryPrice * b[2]
       /\ last.exit_reason \in {"stop_loss_19pct", "stop_loss_15pct"}
            => last.exit_price = EntryPrice * b[3]

C16_Witness ==
  /\ Hunted
  /\ last.score = 65
  /\ last.position_size_sol = [n |-> 3, d |-> 10]
  /\ last.exit_reason = "target_30pct"
  /\ last.exit_price = EntryPrice * 130

OffsetAt(i) == Prices[i].start_time - token.launch_block_time

\* whether window i reaches the target level, or falls under the stop
\* level, of the position held
ReachesTarget(i) ==
  IF last.strategy = "1m_mc_hunting" THEN HuntTargetAt(Prices[i])
  ELSE TargetAt(Prices[i], Rule(last.strategy).target_pct)

UnderStop(i) ==
  IF last.strategy = "1m_mc_hunting" THEN HuntStopAt(Prices[i])
  ELSE StopAt(Prices[i], Rule(last.strategy).stop_pct)

TargetPrice ==
  IF last.strategy = "1m_mc_hunting"
  THEN EntryPrice * Sizing(last.score).profit_target
  ELSE EntryPrice * (100 + Rule(last.strategy).target_pct)

TargetReasons ==
  {"profit_3pct", "target_20pct", "target_25pct", "target_30pct",
   "target_50pct"}

\* C17: when, among the windows after the entry, one whose high reaches the
\* target level comes before any whose low is under the stop level (and
\* before the maximum hold has elapsed or the market-cap threshold is hit),
\* the position exits there with the profit-target reason at the entry price
\* times the target multiplier.
C17_TargetBeforeStop ==
  last.some =>
    LET after == {i \in 1..Len(Prices) : OffsetAt(i) > last.entry_time}
        firing == {i \in after : ReachesTarget(i) \/ UnderStop(i)}
        w == Min(firing)
    IN (/\ firing # {}
        /\ ReachesTarget(w)
        /\ \A j \in after :
             j <= w => ~(last.strategy = "1m_mc_hunting" /\ HitAt(Prices[j]))
        /\ \A j \in after :
             j < w => OffsetAt(j) < last.entry_time + Rule(last.strategy).hold)
       => /\ last.exit_reason \in TargetReasons
          /\ last.exit_price = TargetPrice
          /\ last.exit_time = OffsetAt(w)

StopReasons ==
  {"stop_loss", "stop_loss_10pct", "stop_loss_15pct", "stop_loss_19pct",
   "stop_loss_20pct"}

\* C18: a returned position's P&L in SOL is its size times the relative
\* price change from entry to exit, its P&L in USD is that times the spot
\* rate; so the P&L is positive exactly when the exit price is above the
\* entry price, positive at a target exit and negative at a stop exit.
C18_PnlFormula ==
  last.some =>
    /\ last.pnl_sol.n * last.entry_price * last.position_size_sol.d
         = last.position_size_sol.n * (last.exit_price - last.entry_price)
             * last.pnl_sol.d
    /\ last.pnl_usd.n * last.pnl_sol.d
         = last.pnl_sol.n * SOL_PRICE_USD * last.pnl_usd.d
    /\ (last.pnl_sol.n > 0) = (last.exit_price > last.entry_price)
    /\ last.exit_reason \in TargetReasons => last.pnl_sol.n > 0
    /\ last.exit_reason \in StopReasons => last.pnl_sol.n < 0

C18_Witness ==
  /\ last.some
  /\ last.strategy = "momentum"
  /\ last.exit_reason = "stop_loss_15pct"
  /\ last.exit_price * 100 = last.entry_price * 85
  /\ last.pnl_sol.n < 0
  /\ last.pnl_usd.n < 0

----------------------------------------------------------------------------
(* Properties of the statistics over a batch of tokens *)

\* the running total of a list of recorded positions, added in list order
RECURSIVE RunningTotal(_)
RunningTotal(ts) ==
  IF ts = <<>> THEN FracZero
  ELSE FloatAdd(RunningTotal(SubSeq(ts, 1, Len(ts) - 1)), ts[Len(ts)].pnl_usd)

Winners(ts) == {i \in DOMAIN ts : ts[i].pnl_sol.n > 0}

\* C19: after any number of processed tokens and for every strategy, wins
\* counts exactly the recorded positions with a strictly positive P&L and
\* losses all the others (a zero P&L among them), wins + losses is the
\* number of recorded positions, and total_pnl is the sum of their dollar
\* P&L, added in the order of recording.
C19_StatisticsOfTrades ==
  \A s \in StrategyNames :
    LET d == results[s] IN
      /\ d.wins = Cardinality(Winners(d.trades))
      /\ d.losses = Len(d.trades) - Cardinality(Winners(d.trades))
      /\ d.wins + d.losses = Len(d.trades)
      /\ d.total_pnl = RunningTotal(d.trades)

C19_Witness ==
  /\ idx > 1
  /\ \E s \in StrategyNames :
       LET d == results[s] IN
         /\ Len(d.trades) >= 2
         /\ d.wins >= 1
         /\ \E i \in DOMAIN d.trades : d.trades[i].pnl_sol.n = 0
         /\ d.total_pnl.n # 0

\* the statistics of one strategy after recording the positions ts in order
RECURSIVE Aggregate(_, _)
Aggregate(s, ts) ==
  IF ts = <<>> THEN InitResults
  ELSE Record(Aggregate(s, SubSeq(ts, 1, Len(ts) - 1)), s, ts[Len(ts)])

Orders(n) == {p \in [1..n -> 1..n] : \A i, j \in 1..n : p[i] = p[j] => i = j}

SameTotals(s, d, e) ==
  /\ Len(d.trades) = Len(e.trades)
  /\ d.wins = e.wins
  /\ d.losses = e.losses
  /\ d.total_pnl = e.total_pnl
  /\ s = "1m_mc_hunting" => d.hits_1m = e.hits_1m

\* the sum of the statistics of two sub-batches
AddStatistics(s, d, e) ==
  LET sum == [trades |-> d.trades \o e.trades,
              total_pnl |-> FloatAdd(d.total_pnl, e.total_pnl),
              wins |-> d.wins + e.wins,
              losses |-> d.losses + e.losses]
  IN IF s = "1m_mc_hunting"
     THEN sum @@ [hits_1m |-> d.hits_1m + e.hits_1m]
     ELSE sum

\* C20: a token's positions do not depend on the tokens processed before it,
\* so another processing order records the same positions in another order.
\* For every strategy, recording the positions in any order gives the trade
\* count, wins, losses, total P&L and 1M hits of the run, and so does adding
\* the statistics of the first k positions to those of the others.
C20_OrderIndependent ==
  \A s \in StrategyNames :
    LET d == results[s]
        n == Len(d.trades)
    IN /\ \A p \in Orders(n) :
            SameTotals(s, d, Aggregate(s, [i \in 1..n |-> d.trades[p[i]]])[s])
       /\ \A k \in 0..n :
            SameTotals(s, d,
                       AddStatistics(s, Aggregate(s, SubSeq(d.trades, 1, k))[s],
                                     Aggregate(s, SubSeq(d.trades, k + 1, n))[s]))

----------------------------------------------------------------------------
(* Properties of a whole run *)

\* C21: an exception of a call made for one token, of a simulator or of the
\* price query, never ends the run: the run is never left by an exception
\* while tokens of the batch are still to be processed.
C21_FaultNeverAborts ==
  faulty # {} => ~(phase = "raised" /\ idx < Len(batch))

\* C22: every exception caught in the loop is counted in the results: the
\* report is made from results alone, so a step that swallows an exception
\* has to change them.
C22_FaultsCounted ==
  [][caught' # caught => results' # results]_vars

\* C23: the outcome of a run depends on the records and the configuration
\* alone: the tokens a run processes are the ones a run started at any other
\* time processes on the same tables.
C23_Deterministic ==
  phase \in {"loop", "returned"} =>
    \A at \in NowTimes : batch = QualifiedOf(TokensSince(repository, at, 30))

\* C30: a run in which no call raises ends normally, also when the tokens
\* query returns nothing or when no strategy records a trade: it is never
\* left by an exception.
C30_EmptyRunReturns ==
  faulty = {} => phase # "raised"

----------------------------------------------------------------------------
(* Properties of the scoring functions on missing and degenerate data *)

NoCreatorRow == ~wallet_stats[token.creator_wallet].exists

NoReputationRow == \A w \in DOMAIN wallet_stats : ~wallet_stats[w].exists

NoBuys(start_offset, end_offset) ==
  \A i \in DOMAIN trades :
    trades[i].side = "buy" =>
      \/ trades[i].block_time < token.launch_block_time + start_offset
      \/ trades[i].block_time > token.launch_block_time + end_offset

\* no window starts at or before the offset, or the last one's close is 0
NoPrice(offset) ==
  \A i \in DOMAIN windows :
    windows[i].start_time <= token.launch_block_time + offset =>
      \/ windows[i].close = 0
      \/ \E j \in DOMAIN windows :
           /\ windows[j].start_time > windows[i].start_time
           /\ windows[j].start_time <= token.launch_block_time + offset

\* C24: every scoring call returns all seven contributions, and a signal
\* whose records are missing (no creator row, no reputation row, no buy, no
\* price) or whose denominator is zero (baseline volume, total buy volume,
\* market cap) contributes 0, in the scorer with a label that names what is
\* missing.
C24_MissingDataScoresZero ==
  SevenSignal =>
    LET E == score_out.eval_time
        s == score_out.score
    IN /\ \A k \in 1..7 : Contribution[k] \in 0..30
       /\ NoCreatorRow => Contribution[1] = 0
       /\ NoBuys(0, IF score_out.fn = "score_token_at_time" THEN E ELSE 60)
            => Contribution[2] = 0 /\ Contribution[4] = 0
       /\ (NoBuys(0, E) \/ BuyVolume(0, E) = 0) => Contribution[5] = 0
       /\ BuyVolume(E - 60, E - 30) = 0 => Contribution[6] = 0
       /\ score_out.fn = "score_token_at_time" =>
            /\ (NoPrice(E) \/ NoPrice(E - 30)) => Contribution[7] = 0
            /\ (NoPrice(E) \/ token.initial_liquidity_sol = 0)
                 => Contribution[3] = 0
            /\ NoCreatorRow => s.signal_1.detail = "new_creator"
            /\ NoBuys(0, E) =>
                 /\ s.signal_2.detail = "no_buyers"
                 /\ s.signal_4.detail \in {"no_proven_wallets", "no_overlap"}
                 /\ s.signal_5.detail = "buyers_flagged"
            /\ NoReputationRow => /\ Contribution[4] = 0
                                  /\ s.signal_4.detail = "no_proven_wallets"
            /\ BuyVolume(0, E) = 0 =>
                 s.signal_5.detail \in {"buyers_flagged", "no_volume"}
            /\ BuyVolume(E - 60, E - 30) = 0 =>
                 s.signal_6.detail \in {"insufficient_time", "no_baseline"}
            /\ token.initial_liquidity_sol = 0 =>
                 s.signal_3.detail = "no_liquidity_data"
            /\ (NoPrice(E) /\ token.initial_liquidity_sol # 0) =>
                 s.signal_3.detail = "no_price_data"
            /\ NoPrice(E) => s.signal_7.detail = "no_current_price"
            /\ (NoPrice(E - 30) /\ ~NoPrice(E)) =>
                 s.signal_7.detail = "no_baseline_price"
       /\ (/\ score_out.fn = "calculate_7_signal_score"
           /\ (Len(windows) < 3 \/ windows[1].close = 0))
            => Contribution[7] = 0

\* a token without creator row whose price is 0 until the last window and
\* whose four buyers bought nothing, scored at 120 seconds: the price of 30
\* seconds before and the volumes are zero
C24_Witness ==
  /\ score_out.some
  /\ score_out.fn = "score_token_at_time"
  /\ score_out.eval_time = 120
  /\ NoCreatorRow
  /\ ~NoPrice(120)
  /\ NoPrice(90)
  /\ Cardinality(BuyersUntil(120)) = 4
  /\ BuyVolume(0, 120) = 0
  /\ score_out.score.signal_5.detail = "no_volume"
  /\ score_out.score.signal_7.detail = "no_baseline_price"
  /\ score_out.score.signal_5.score = 0
  /\ score_out.score.signal_7.score = 0

\* the buys a query of signal 6 returns for a window of offsets
WindowBuys(start_offset, end_offset) ==
  Buys(get_trades(token.launch_block_time, start_offset, end_offset))

\* C28: the two 30-second windows of signal 6 share no buy: a buy is in at
\* most one of the two volume sums, also a buy at the very instant at which
\* the baseline window ends and the recent window begins.
C28_Signal6WindowsDisjoint ==
  (SevenSignal /\ score_out.eval_time >= 60) =>
    LET E == score_out.eval_time
        recent == WindowBuys(E - 30, E)
        baseline == WindowBuys(E - 60, E - 30)
    IN \A i \in DOMAIN recent, j \in DOMAIN baseline : recent[i] # baseline[j]

----------------------------------------------------------------------------
(* Further properties of the strategy simulators *)

\* the trades of the first 60 seconds that copy trading may follow: buys of
\* at least 0.25 SOL by a wallet with a record of tier S, A, B or C
CopyCandidates ==
  {i \in DOMAIN trades :
     /\ trades[i].block_time >= token.launch_block_time
     /\ trades[i].block_time <= token.launch_block_time + 60
     /\ trades[i].side = "buy"
     /\ trades[i].amount_sol >= 25
     /\ wallet_stats[trades[i].trader].exists
     /\ get_wallet_tier(trades[i].trader) \in {"S", "A", "B", "C"}}

\* offset from launch of the earliest candidate
CopyInstant ==
  Min({trades[i].block_time : i \in CopyCandidates}) - token.launch_block_time

\* the windows less than 10 seconds from the copied buy
CopyAligned ==
  {i \in DOMAIN Prices :
     Abs(Prices[i].start_time - token.launch_block_time - CopyInstant) < 10}

\* C25: a copy-trading position exists only if the first 60 seconds hold a
\* buy of at least the minimum size by a wallet of a reputable tier (a wallet
\* without record is none); the entry is then taken at the first window
\* within 10 seconds of the earliest such buy, at its close.
C25_CopyEntry ==
  (pc = 4 /\ last.some) =>
    /\ last.strategy = "copy_trading"
    /\ CopyCandidates # {}
    /\ CopyAligned # {}
    /\ last.entry_time
         = Prices[Min(CopyAligned)].start_time - token.launch_block_time
    /\ last.entry_price = Prices[Min(CopyAligned)].close * 100

\* a position copied from the third buy of the token: the first is too
\* small and the second is by a wallet without record
C25_Witness ==
  /\ pc = 4
  /\ last.some
  /\ last.strategy = "copy_trading"
  /\ \E i, j \in DOMAIN trades :
       /\ trades[i].side = "buy" /\ trades[i].amount_sol < 25
       /\ trades[j].side = "buy" /\ ~wallet_stats[trades[j].trader].exists
       /\ trades[i].block_time < token.launch_block_time + CopyInstant
       /\ trades[j].block_time < token.launch_block_time + CopyInstant
  /\ CopyInstant = 58
  /\ last.entry_time \in {60, 65}

HuntingTrades == results["1m_mc_hunting"].trades

\* C26: after any number of processed tokens, 1m_hits is the number of
\* recorded positions of the score-gated strategy that left at the 1M
\* market cap, and a recorded position has hit_1m exactly when its exit
\* reason is hit_1m_mc.
C26_HitsCounted ==
  /\ \A i \in DOMAIN HuntingTrades :
       HuntingTrades[i].hit_1m <=> HuntingTrades[i].exit_reason = "hit_1m_mc"
  /\ results["1m_mc_hunting"].hits_1m
       = Cardinality({i \in DOMAIN HuntingTrades :
                        HuntingTrades[i].exit_reason = "hit_1m_mc"})

\* two hits and a position that left otherwise
C26_Witness ==
  /\ results["1m_mc_hunting"].hits_1m = 2
  /\ Len(HuntingTrades) = 3
  /\ \E i \in DOMAIN HuntingTrades : ~HuntingTrades[i].hit_1m

\* offsets from launch of the windows of the token
Offsets == {Prices[i].start_time - token.launch_block_time : i \in DOMAIN Prices}

\* the quick scalp has an entry window with a price, and it is the last
\* window of the token
ScalpEntryIsLast ==
  /\ Len(Prices) >= 2
  /\ \E o \in Offsets :
       /\ o >= 30 /\ o <= 60
       /\ \A q \in Offsets : q <= o
       /\ \A i \in DOMAIN Prices :
            Prices[i].start_time - token.launch_block_time = o
              => Prices[i].close > 0

\* the position is the last one recorded for its strategy
Recorded(r) ==
  LET ts == results[r.strategy].trades
  IN ts # <<>> /\ ts[Len(ts)] = r

\* C27: the quick scalp returns no position when no exit condition was met
\* (the exit reason still "time", the P&L zero): each of its positions has
\* exit reason profit_3pct, stop_loss or time_20s, and a token whose entry
\* window is its last window gives no quick-scalp trade; the other
\* strategies return and record such a position, as a trade of P&L 0.
C27_ScalpDropsFlatTrade ==
  /\ (pc = 1 /\ last.some) =>
       /\ last.strategy = "dollar_scalping"
       /\ last.exit_reason \in {"profit_3pct", "stop_loss", "time_20s"}
  /\ (pc = 1 /\ ScalpEntryIsLast) =>
       /\ ~last.some
       /\ results["dollar_scalping"].trades = <<>>
  /\ (pc \in 2..6 /\ last.some /\ last.exit_reason = "time") =>
       /\ last.strategy # "dollar_scalping"
       /\ last.pnl_sol.n = 0
       /\ last.exit_price = last.entry_price
       /\ Recorded(last)

\* a token whose last window is entered by the quick scalp and by copy
\* trading: no quick-scalp trade, and a copy trade of P&L 0 among the losses
C27_Witness ==
  /\ pc = 4
  /\ ScalpEntryIsLast
  /\ results["dollar_scalping"].trades = <<>>
  /\ last.some
  /\ last.strategy = "copy_trading"
  /\ last.exit_reason = "time"
  /\ last.pnl_sol.n = 0
  /\ results["copy_trading"].losses = 1

\* the windows that start no later than the given offset from launch
Upto(ws, offset) ==
  SelectSeq(ws, LAMBDA w : w.start_time - token.launch_block_time <= offset)

\* the simulator that has just run, on the history cut after the window
\* at which its exit fired
Replayed ==
  LET launch_time == token.launch_block_time
      cut == Upto(Prices, last.exit_time)
      cut_5min == Upto(get_price_data(launch_time, 300), last.exit_time)
  IN CASE pc = 1 -> test_dollar_scalping(launch_time, cut)
       [] pc = 2 -> test_rank_based(launch_time, cut, SumVol(cut_5min))
       [] pc = 3 -> test_momentum(launch_time, cut)
       [] pc = 4 -> test_copy_trading(launch_time, cut)
       [] pc = 5 -> test_late_opportunity(launch_time, cut)
       [] pc = 6 -> test_1m_mc_hunting(launch_time, token.creator_wallet,
                                       cut)

\* C29: once the exit of a strategy has fired at a window, the windows that
\* start after it have no influence: the simulator gives the same position
\* on the history without them.
C29_LaterWindowsIgnored == (pc \in 1..6 /\ Exited) => Replayed = last

====
